---------------------------- MODULE Spec2Model ----------------------------
(***************************************************************************)
(* State-machine model of the parallel test runner of ai_testbed           *)
(* (src/src/ai_testbed/test_runner.py) and of the connector layer it calls *)
(* (src/src/ai_testbed/connectors).                                        *)
(*                                                                         *)
(* Texts are tuples of one-character strings.  An Optional[T] value of the *)
(* Python code is the empty tuple (None) or a one-element tuple.           *)
(***************************************************************************)
EXTENDS Integers, Sequences, FiniteSets, Bags, TLC

VARIABLES
    cfg,          \* the loaded configuration (tests, models, run list, max_workers)
    impl,         \* which create_connector the runner calls
    sem,          \* rate_limiters: limiter key -> permits available
    calls,        \* run_single_test invocations: call id -> record
    rt,           \* run_test invocations: test name -> record
    rat,          \* the run_all_tests invocation
    failed_log,   \* the failed-test log file: <<test, model, run>> -> entries written
    lev,          \* a caller of levenshtein_distance: its arguments and results
    report,       \* a caller of the report functions: the results given, the statistics made
    retry,        \* a call of a connector's generate: the loop of generate_with_retry
    ws            \* a WebSocket connector: its fields, its sockets, the attempt running

vars == <<cfg, impl, sem, calls, rt, rat, failed_log, lev, report, retry, ws>>

\* the runner's state, and the state of the callers of the pure functions
runner == <<cfg, impl, sem, calls, rt, rat, failed_log>>
connector == <<retry, ws>>
calc == <<lev, report, connector>>

\* nobody calls the pure functions
NoLev == [pc |-> "unused", a |-> <<>>, b |-> <<>>, c |-> <<>>, d |-> <<>>]
NoReport == [pc |-> "unused", round |-> 0, results |-> <<>>, matrix |-> <<>>, table |-> <<>>, sorted_models |-> <<>>, latency |-> <<>>, html |-> <<>>, html_sorted_models |-> <<>>, html_p95 |-> <<>>]

\* no connector is in use
NoRetry == [pc |-> "unused", retries_empty |-> FALSE, max_retries |-> 0, attempt |-> 0, history |-> <<>>, last_result |-> <<>>, ret |-> <<>>]
NoSocket == [pc |-> "unused"]

None == <<>>
Some(x) == <<x>>
IsNone(o) == Len(o) = 0
IsSome(o) == Len(o) = 1

Min3(a, b, c) == IF a <= b /\ a <= c THEN a ELSE IF b <= c THEN b ELSE c

-----------------------------------------------------------------------------
(* Text helpers: Python str.strip, re.sub(r'\s+', ' ', .), str.lower, in.   *)

IsSpace(ch) == ch \in {" ", "\n", "\t"}

RECURSIVE LStrip(_)
LStrip(s) == IF Len(s) > 0 /\ IsSpace(Head(s)) THEN LStrip(Tail(s)) ELSE s

RECURSIVE RStrip(_)
RStrip(s) ==
    IF Len(s) > 0 /\ IsSpace(s[Len(s)]) THEN RStrip(SubSeq(s, 1, Len(s) - 1)) ELSE s

Strip(s) == RStrip(LStrip(s))

\* re.sub(r'\s+', ' ', s): every maximal run of whitespace becomes one space
RECURSIVE CollapseSpaces(_)
CollapseSpaces(s) ==
    IF Len(s) = 0 THEN <<>>
    ELSE IF IsSpace(Head(s))
         THEN <<" ">> \o CollapseSpaces(LStrip(s))
         ELSE <<Head(s)>> \o CollapseSpaces(Tail(s))

normalize_whitespace(text) == CollapseSpaces(Strip(text))

LowerChar(ch) ==
    CASE ch = "H" -> "h"
      [] ch = "I" -> "i"
      [] OTHER -> ch

Lower(s) == [k \in 1..Len(s) |-> LowerChar(s[k])]

\* Python's  sub in s
Contains(sub, s) ==
    \E off \in 0..(Len(s) - Len(sub)) :
        \A k \in 1..Len(sub) : s[off + k] = sub[k]

Reverse(s) == [k \in 1..Len(s) |-> s[Len(s) + 1 - k]]

-----------------------------------------------------------------------------
(* levenshtein_distance: the rolling-row dynamic programme of the source.   *)

\* faulty variant: a substitution costs 1 even when the characters are equal
RECURSIVE LevInner_AlwaysSubstitutes(_, _, _, _, _)
LevInner_AlwaysSubstitutes(previous_row, current_row, c1, s2, j) ==
    IF j > Len(s2) THEN current_row
    ELSE LET insertions    == previous_row[j + 1] + 1
             deletions     == current_row[j] + 1
             substitutions == previous_row[j] + 1
         IN LevInner_AlwaysSubstitutes(previous_row,
                     Append(current_row, Min3(insertions, deletions, substitutions)),
                     c1, s2, j + 1)

\* the inner loop over s2 (j is the 1-based position of c2 in s2)
RECURSIVE LevInner(_, _, _, _, _)
LevInner(previous_row, current_row, c1, s2, j) ==
    IF j > Len(s2) THEN current_row
    ELSE LET insertions    == previous_row[j + 1] + 1
             deletions     == current_row[j] + 1
             substitutions == previous_row[j] + (IF c1 # s2[j] THEN 1 ELSE 0)
         IN LevInner(previous_row,
                     Append(current_row, Min3(insertions, deletions, substitutions)),
                     c1, s2, j + 1)

\* the outer loop over s1 (i is the 1-based position of c1 in s1)
RECURSIVE LevOuter(_, _, _, _)
LevOuter(previous_row, s1, s2, i) ==
    IF i > Len(s1) THEN previous_row
    ELSE LevOuter(LevInner(previous_row, <<i>>, s1[i], s2, 1), s1, s2, i + 1)

\* faulty variant: the distance to the empty string is 0
levenshtein_distance_EmptyIsZero(s1, s2) ==
    LET a == IF Len(s1) < Len(s2) THEN s2 ELSE s1
        b == IF Len(s1) < Len(s2) THEN s1 ELSE s2
    IN IF Len(b) = 0 THEN 0
       ELSE LET last_row == LevOuter([k \in 1..(Len(b) + 1) |-> k - 1], a, b, 1)
            IN last_row[Len(last_row)]

\* faulty variant: the distance to the empty string is twice the length
levenshtein_distance_EmptyCostsDouble(s1, s2) ==
    LET a == IF Len(s1) < Len(s2) THEN s2 ELSE s1
        b == IF Len(s1) < Len(s2) THEN s1 ELSE s2
    IN IF Len(b) = 0 THEN 2 * Len(a)
       ELSE LET last_row == LevOuter([k \in 1..(Len(b) + 1) |-> k - 1], a, b, 1)
            IN last_row[Len(last_row)]

levenshtein_distance(s1, s2) ==
    LET a == IF Len(s1) < Len(s2) THEN s2 ELSE s1
        b == IF Len(s1) < Len(s2) THEN s1 ELSE s2
    IN IF Len(b) = 0 THEN Len(a)
       ELSE LET last_row == LevOuter([k \in 1..(Len(b) + 1) |-> k - 1], a, b, 1)
            IN last_row[Len(last_row)]

-----------------------------------------------------------------------------
(* TestResult and the failed-test log.                                      *)

TestResult(test_name, model_name, passed, expected, actual, run_number, error, distance, latency_ms) ==
    [test_name |-> test_name, model_name |-> model_name, passed |-> passed,
     expected |-> expected, actual |-> actual, run_number |-> run_number,
     error |-> error, distance |-> distance, latency_ms |-> latency_ms]

\* _log_failed_test: one entry appended for a result that did not pass.  The
\* file is kept as the bag of the entries written to it.
LogEntry(result) == <<result.test_name, result.model_name, result.run_number>>

log_failed_test(log, result) ==
    IF ~result.passed THEN log (+) SetToBag({LogEntry(result)}) ELSE log

-----------------------------------------------------------------------------
(* The rate limiters.                                                       *)

OpenAICap == 10
AnthropicCap == 5
EchoCap == 20
MockCap == 20

rate_limiters ==
    [k \in {"openai", "anthropic", "echo", "mock"} |->
        CASE k = "openai" -> OpenAICap
          [] k = "anthropic" -> AnthropicCap
          [] k = "echo" -> EchoCap
          [] k = "mock" -> MockCap]

\* faulty variant: a provider without a limiter of its own is sent to the
\* mock limiter
get_provider_semaphore_FallsBackToMock(model_name) ==
    IF model_name \notin DOMAIN cfg.models THEN "echo"
    ELSE LET provider == cfg.models[model_name].provider
         IN IF provider \in DOMAIN rate_limiters THEN provider ELSE "mock"

\* _get_provider_semaphore: the key of the limiter a model is admitted through
get_provider_semaphore(model_name) ==
    IF model_name \notin DOMAIN cfg.models THEN "echo"
    ELSE LET provider == cfg.models[model_name].provider
         IN IF provider \in DOMAIN rate_limiters THEN provider ELSE "echo"

-----------------------------------------------------------------------------
(* Connectors.  A GenerateResult is [text, error, has_fbl, fbl]: has_fbl    *)
(* says whether the object has a first_byte_latency_ms attribute at all.    *)

\* the registry's keys.  No configuration below names a realtime provider;
\* their connectors are not modelled further.
PROVIDERS ==
    {"mock", "openai", "echo", "anthropic", "openai-realtime", "openai-realtime-ws",
     "half-echo", "reverse-echo"}

GenerateResult(text, error) ==
    [text |-> text, error |-> error, has_fbl |-> FALSE, fbl |-> None]

\* a result object of a stand-in connector, which carries the attribute
InterfaceResult(text, error, fbl) ==
    [text |-> text, error |-> error, has_fbl |-> TRUE, fbl |-> fbl]

NoResult == GenerateResult(<<>>, None)

Raises(exc_type, msg) ==
    [kind |-> "raise", exc_type |-> exc_type, msg |-> msg, generated |-> FALSE,
     result |-> NoResult]
\* generate was called and raised
GenerateRaises(exc_type, msg) ==
    [kind |-> "raise", exc_type |-> exc_type, msg |-> msg, generated |-> TRUE,
     result |-> NoResult]
Returns(result) ==
    [kind |-> "return", exc_type |-> "", msg |-> <<>>, generated |-> TRUE,
     result |-> result]

\* the text a local connector's _generate_single answers to a prompt
LocalReply(provider, model_name, prompt) ==
    CASE provider = "echo" -> prompt
      [] provider = "mock" ->
            IF model_name = "mock-gpt-2" THEN prompt
            ELSE IF Len(prompt) >= 10 THEN SubSeq(prompt, 1, 10) ELSE prompt
      [] provider = "half-echo" -> SubSeq(prompt, 1, Len(prompt) \div 2)
      [] provider = "reverse-echo" -> Reverse(prompt)

\* generate of a registry connector.  The remote connectors pass a
\* first_byte_latency_ms keyword that GenerateResult does not declare: every
\* attempt raises TypeError inside _generate_single, generate_with_retry
\* turns that into an error result after max_retries + 1 attempts.
RegistryGenerate(provider, model_name, prompt) ==
    IF provider \in {"openai", "anthropic"}
    THEN GenerateResult(<<>>, Some(<<"Failed after 4 attempts. Last error: Unexpected error on attempt 4">>))
    ELSE GenerateResult(LocalReply(provider, model_name, prompt), None)

\* create_connector followed by connector.generate, for the registry
RegistryCall(model_name, prompt) ==
    LET mc == cfg.models[model_name]
    IN IF mc.provider \notin PROVIDERS
       THEN Raises("ValueError", <<"No connector registered for provider", mc.provider>>)
       ELSE IF ~mc.local /\ ~mc.key_valid
       THEN Raises("ValueError", <<"API key is missing or invalid", model_name>>)
       ELSE Returns(RegistryGenerate(mc.provider, model_name, prompt))

\* what a stand-in connector (create_connector patched, as the unit tests do)
\* may do: raise, or return a result with or without an error
StubTexts ==
    { <<>>, <<"h", "i">>, <<"i", "h">>, <<" ", "h", "i", "\n">>, <<"H", "I">>,
      <<"h", "i", " ", "y", "o">> }

StubBehaviours ==
    { Raises("ValueError", <<"invalid value">>), Raises("RuntimeError", <<"boom">>),
      GenerateRaises("TimeoutError", <<"timed out">>) }
    \cup { Returns(InterfaceResult(t, None, f)) : t \in StubTexts, f \in {None, Some(5)} }
    \cup { Returns(InterfaceResult(<<>>, Some(<<"Request timeout">>), f)) : f \in {None, Some(5)} }
    \cup { Returns(GenerateResult(t, None)) : t \in {<<"h", "i">>} }

Hi == <<"h", "i">>

\* a stand-in connector that answers "hi" or raises
SmallStubBehaviours ==
    { Returns(InterfaceResult(Hi, None, Some(5))), Raises("RuntimeError", <<"boom">>) }

\* impl says which create_connector the runner calls: the registry's, or a
\* stand-in; these are the outcomes create_connector + generate can have
Behaviours(model_name, prompt) ==
    CASE impl = "registry" -> {RegistryCall(model_name, prompt)}
      [] impl = "stub" -> StubBehaviours
      [] impl = "small_stub" -> SmallStubBehaviours

\* wall-clock durations (ms) a call may take
WallClockMs == {20}

-----------------------------------------------------------------------------
(* run_single_test.                                                         *)

ErrorResult(test_name, model_name, run_number, expected, msg, latency_ms) ==
    TestResult(test_name, model_name, FALSE, expected, <<>>, run_number,
               Some(msg), None, latency_ms)

TestNotFound(test_name, model_name, run_number) ==
    ErrorResult(test_name, model_name, run_number, <<>>,
                <<"Test", test_name, "not found in configuration">>, Some(0))

\* faulty variant: the model-not-found result names the test (a copied message)
ModelNotFound_NamesTest(test_name, model_name, run_number) ==
    ErrorResult(test_name, model_name, run_number,
                cfg.tests[test_name].expected_output,
                <<"Test", test_name, "not found in configuration">>, Some(0))

ModelNotFound(test_name, model_name, run_number) ==
    ErrorResult(test_name, model_name, run_number,
                cfg.tests[test_name].expected_output,
                <<"Model", model_name, "not found in models configuration">>, Some(0))

AttributeErrorMsg ==
    <<"'GenerateResult' object has no attribute 'first_byte_latency_ms'">>

\* the pass/fail decision and the distance of a successful connector call
Passed(test_config, actual_output) ==
    IF test_config.exact_match
    THEN normalize_whitespace(test_config.expected_output)
            = normalize_whitespace(actual_output)
    ELSE Contains(Lower(test_config.expected_output), Lower(actual_output))

\* faulty variant: the distance is computed for substring tests too
Distance_Always(test_config, actual_output) ==
    Some(levenshtein_distance(normalize_whitespace(test_config.expected_output),
                              normalize_whitespace(actual_output)))

\* faulty variant: the distance is taken between the texts as they are, the
\* comparison between the normalized texts
Distance_Unnormalized(test_config, actual_output) ==
    IF test_config.exact_match
    THEN Some(levenshtein_distance(test_config.expected_output, actual_output))
    ELSE None

Distance(test_config, actual_output) ==
    IF test_config.exact_match
    THEN Some(levenshtein_distance(normalize_whitespace(test_config.expected_output),
                                   normalize_whitespace(actual_output)))
    ELSE None

\* how a block of code ends: with a TestResult, or with an exception
Completed(result) ==
    [kind |-> "return", exc_type |-> "", msg |-> <<>>, result |-> result]
Thrown(exc_type, msg) ==
    [kind |-> "raise", exc_type |-> exc_type, msg |-> msg,
     result |-> TestResult("", "", FALSE, <<>>, <<>>, 0, None, None, None)]

\* the try block: connector created and called, latency taken from the
\* result's first_byte_latency_ms, the text compared.  beh is what
\* create_connector and generate did, elapsed the wall-clock time of the call.
TryBlock(test_name, model_name, run_number, beh, elapsed) ==
    LET test_config == cfg.tests[test_name]
    IN IF beh.kind = "raise" THEN Thrown(beh.exc_type, beh.msg)
       ELSE IF ~beh.result.has_fbl THEN Thrown("AttributeError", AttributeErrorMsg)
       ELSE LET result == beh.result
                latency_ms == IF IsSome(result.fbl) THEN result.fbl[1] ELSE elapsed
                actual_output == result.text
            IN Completed(
                 TestResult(test_name, model_name, Passed(test_config, actual_output),
                            test_config.expected_output, actual_output, run_number,
                            None, Distance(test_config, actual_output),
                            Some(latency_ms)))

\* faulty variant: only except ValueError; any other exception leaves the function
RunSingleBody_OnlyValueError(test_name, model_name, run_number, beh, elapsed) ==
    LET attempt == TryBlock(test_name, model_name, run_number, beh, elapsed)
        failure == ErrorResult(test_name, model_name, run_number,
                               cfg.tests[test_name].expected_output,
                               attempt.msg, Some(elapsed))
    IN IF attempt.kind = "return" THEN attempt
       ELSE IF attempt.exc_type = "ValueError" THEN Completed(failure)
       ELSE attempt

\* the body of the with-block: the try block and its two handlers, except
\* ValueError and except Exception, which build the same failing result
RunSingleBody(test_name, model_name, run_number, beh, elapsed) ==
    LET attempt == TryBlock(test_name, model_name, run_number, beh, elapsed)
        failure == ErrorResult(test_name, model_name, run_number,
                               cfg.tests[test_name].expected_output,
                               attempt.msg, Some(elapsed))
    IN IF attempt.kind = "return" THEN attempt
       ELSE IF attempt.exc_type = "ValueError" THEN Completed(failure)
       ELSE Completed(failure)

NewCall(test_name, model_name, run_number, pool) ==
    [test |-> test_name, model |-> model_name, run |-> run_number, pool |-> pool,
     pc |-> "queued", beh |-> None, ret |-> None, exc |-> None,
     n_create |-> 0, n_generate |-> 0, warned |-> FALSE]

\* the call occupies a worker of its pool: it is inside run_single_test
InProgress(c) ==
    \/ calls[c].pc \in {"waiting", "calling"}
    \/ calls[c].pc \in {"log_wait", "logging"} /\ IsNone(calls[c].exc)

\* faulty variant: the calls are submitted to the pool that runs run_test
WorkerFree_SharedPool(c) ==
    \/ calls[c].pool = "direct"
    \/ /\ Cardinality({d \in DOMAIN calls : calls[d].pool # "direct" /\ InProgress(d)})
              + Cardinality({u \in DOMAIN rt : rt[u].pc = "collecting"}) < cfg.max_workers
       /\ \A d \in DOMAIN calls :
              (calls[d].pool = calls[c].pool /\ d[2] < c[2]) => calls[d].pc # "queued"

\* a worker of the call's pool is free to take it, and the pool's queue is
\* first-in first-out; a direct call needs no worker
WorkerFree(c) ==
    \/ calls[c].pool = "direct"
    \/ /\ Cardinality({d \in DOMAIN calls : calls[d].pool = calls[c].pool /\ InProgress(d)})
              < cfg.max_workers
       /\ \A d \in DOMAIN calls :
              (calls[d].pool = calls[c].pool /\ d[2] < c[2]) => calls[d].pc # "queued"

\* faulty variant: the model is looked up before the test
RST_Begin_ModelFirst(c) ==
    /\ calls[c].pc = "queued"
    /\ WorkerFree(c)
    /\ LET t == calls[c].test
           m == calls[c].model
           r == calls[c].run
           no_model == ErrorResult(t, m, r, <<>>,
                           <<"Model", m, "not found in models configuration">>, Some(0))
       IN IF m \notin DOMAIN cfg.models
          THEN /\ calls' = [calls EXCEPT ![c].pc = "returned", ![c].ret = Some(no_model)]
               /\ failed_log' = log_failed_test(failed_log, no_model)
          ELSE IF t \notin DOMAIN cfg.tests
          THEN /\ calls' = [calls EXCEPT ![c].pc = "returned",
                                         ![c].ret = Some(TestNotFound(t, m, r))]
               /\ failed_log' = log_failed_test(failed_log, TestNotFound(t, m, r))
          ELSE /\ calls' = [calls EXCEPT ![c].pc = "waiting"]
               /\ UNCHANGED failed_log
    /\ UNCHANGED <<cfg, impl, sem, rt, rat>>

\* faulty variant: the configuration checks are made inside the with-block,
\* a call with an unknown name returns once it has had a permit
RST_Begin_ChecksUnderPermit(c) ==
    /\ calls[c].pc = "queued"
    /\ WorkerFree(c)
    /\ LET t == calls[c].test
           m == calls[c].model
           r == calls[c].run
       IN IF t \notin DOMAIN cfg.tests
          THEN /\ sem[get_provider_semaphore(m)] > 0
               /\ calls' = [calls EXCEPT ![c].pc = "returned",
                                         ![c].ret = Some(TestNotFound(t, m, r))]
               /\ failed_log' = log_failed_test(failed_log, TestNotFound(t, m, r))
          ELSE IF m \notin DOMAIN cfg.models
          THEN /\ sem[get_provider_semaphore(m)] > 0
               /\ calls' = [calls EXCEPT ![c].pc = "returned",
                                         ![c].ret = Some(ModelNotFound(t, m, r))]
               /\ failed_log' = log_failed_test(failed_log, ModelNotFound(t, m, r))
          ELSE /\ calls' = [calls EXCEPT ![c].pc = "waiting"]
               /\ UNCHANGED failed_log
    /\ UNCHANGED <<cfg, impl, sem, rt, rat>>

\* the call starts: the two configuration checks, which return at once
RST_Begin(c) ==
    /\ calls[c].pc = "queued"
    /\ WorkerFree(c)
    /\ LET t == calls[c].test
           m == calls[c].model
           r == calls[c].run
       IN IF t \notin DOMAIN cfg.tests
          THEN /\ calls' = [calls EXCEPT ![c].pc = "returned",
                                         ![c].ret = Some(TestNotFound(t, m, r))]
               /\ failed_log' = log_failed_test(failed_log, TestNotFound(t, m, r))
          ELSE IF m \notin DOMAIN cfg.models
          THEN /\ calls' = [calls EXCEPT ![c].pc = "returned",
                                         ![c].ret = Some(ModelNotFound(t, m, r))]
               /\ failed_log' = log_failed_test(failed_log, ModelNotFound(t, m, r))
          ELSE /\ calls' = [calls EXCEPT ![c].pc = "waiting"]
               /\ UNCHANGED failed_log
    /\ UNCHANGED <<cfg, impl, sem, rt, rat>>

\* faulty variant: the limiter is decremented without waiting for a permit
RST_Acquire_NoWait(c) ==
    /\ calls[c].pc = "waiting"
    /\ sem' = [sem EXCEPT ![get_provider_semaphore(calls[c].model)] = @ - 1]
    /\ calls' = [calls EXCEPT ![c].pc = "calling"]
    /\ UNCHANGED <<cfg, impl, rt, rat, failed_log>>

\* with semaphore: blocks until the provider's limiter has a permit
RST_Acquire(c) ==
    /\ calls[c].pc = "waiting"
    /\ sem[get_provider_semaphore(calls[c].model)] > 0
    /\ sem' = [sem EXCEPT ![get_provider_semaphore(calls[c].model)] = @ - 1]
    /\ calls' = [calls EXCEPT ![c].pc = "calling"]
    /\ UNCHANGED <<cfg, impl, rt, rat, failed_log>>

\* faulty variant: acquire and release written by hand, the release only on the
\* path where the connector call came back
RST_Finish_LeakOnError(c) ==
    /\ calls[c].pc = "calling"
    /\ \E beh \in Behaviours(calls[c].model, cfg.tests[calls[c].test].prompt),
          elapsed \in WallClockMs :
        LET body == RunSingleBody(calls[c].test, calls[c].model, calls[c].run,
                                  beh, elapsed)
        IN /\ calls' = [calls EXCEPT
                           ![c].pc = "returned",
                           ![c].beh = Some(beh),
                           ![c].ret = Some(body.result),
                           ![c].n_create = @ + 1,
                           ![c].n_generate = @ + (IF beh.generated THEN 1 ELSE 0)]
           /\ failed_log' = log_failed_test(failed_log, body.result)
           /\ sem' = IF IsNone(body.result.error)
                     THEN [sem EXCEPT ![get_provider_semaphore(calls[c].model)] = @ + 1]
                     ELSE sem
    /\ UNCHANGED <<cfg, impl, rt, rat>>

\* faulty variant: a failed attempt is followed by a second one
RST_Finish_RetryOnError(c) ==
    /\ calls[c].pc = "calling"
    /\ \E beh \in Behaviours(calls[c].model, cfg.tests[calls[c].test].prompt),
          elapsed \in WallClockMs :
        LET body == RunSingleBody(calls[c].test, calls[c].model, calls[c].run,
                                  beh, elapsed)
        IN IF IsSome(body.result.error) /\ calls[c].n_generate = 0 /\ beh.generated
           THEN /\ calls' = [calls EXCEPT ![c].n_create = @ + 1, ![c].n_generate = @ + 1]
                /\ UNCHANGED <<failed_log, sem>>
           ELSE /\ calls' = [calls EXCEPT
                                ![c].pc = "returned",
                                ![c].beh = Some(beh),
                                ![c].ret = Some(body.result),
                                ![c].n_create = @ + 1,
                                ![c].n_generate = @ + (IF beh.generated THEN 1 ELSE 0)]
                /\ failed_log' = log_failed_test(failed_log, body.result)
                /\ sem' = [sem EXCEPT ![get_provider_semaphore(calls[c].model)] = @ + 1]
    /\ UNCHANGED <<cfg, impl, rt, rat>>

\* the with-block runs to its end: connector created and called, the result
\* classified and logged; the permit is released on leaving the block
RST_Finish(c) ==
    /\ calls[c].pc = "calling"
    /\ \E beh \in Behaviours(calls[c].model, cfg.tests[calls[c].test].prompt),
          elapsed \in WallClockMs :
        LET body == RunSingleBody(calls[c].test, calls[c].model, calls[c].run,
                                  beh, elapsed)
        IN IF body.kind = "return"
           THEN /\ calls' = [calls EXCEPT
                                ![c].pc = "returned",
                                ![c].beh = Some(beh),
                                ![c].ret = Some(body.result),
                                ![c].n_create = @ + 1,
                                ![c].n_generate = @ + (IF beh.generated THEN 1 ELSE 0)]
                /\ failed_log' = log_failed_test(failed_log, body.result)
           ELSE /\ calls' = [calls EXCEPT
                                ![c].pc = "raised",
                                ![c].beh = Some(beh),
                                ![c].exc = Some(body.msg),
                                ![c].n_create = @ + 1,
                                ![c].n_generate = @ + (IF beh.generated THEN 1 ELSE 0)]
                /\ UNCHANGED failed_log
    /\ sem' = [sem EXCEPT ![get_provider_semaphore(calls[c].model)] = @ + 1]
    /\ UNCHANGED <<cfg, impl, rt, rat>>

-----------------------------------------------------------------------------
(* run_test.                                                                *)

\* faulty variant: the explicit count of an entry is ignored
EntryRuns_AlwaysDefault(model_run) == cfg.runs_per_test

\* runs of one entry of test_run_config.models: its own count when the entry
\* set runs explicitly, runs_per_test otherwise
EntryRuns(model_run) ==
    IF model_run.runs_set THEN model_run.runs ELSE cfg.runs_per_test

\* test_tasks: (test, model, run number) for every entry, run numbers 1..runs
RECURSIVE ExpandTasks(_, _)
ExpandTasks(test_name, model_runs) ==
    IF Len(model_runs) = 0 THEN <<>>
    ELSE [r \in 1..EntryRuns(Head(model_runs)) |->
              <<test_name, Head(model_runs).name, r>>]
         \o ExpandTasks(test_name, Tail(model_runs))

\* faulty variant: run numbers from range(runs), 0..runs-1
TestTasks_ZeroBased(test_name) ==
    LET tasks == ExpandTasks(test_name, cfg.run_models)
    IN [k \in 1..Len(tasks) |-> <<tasks[k][1], tasks[k][2], tasks[k][3] - 1>>]

TestTasks(test_name) == ExpandTasks(test_name, cfg.run_models)

PoolCalls(t) == {c \in DOMAIN calls : calls[c].pool = t}

Position(seq, x) == CHOOSE k \in 1..Len(seq) : seq[k] = x

\* a worker of run_all_tests' pool is free to take run_test(t); a direct call
\* of run_test needs none
TestWorkerFree(t) ==
    \/ rt[t].pc = "called"
    \/ /\ rt[t].pc = "queued"
       /\ Cardinality({u \in DOMAIN rt : rt[u].pc = "collecting"}) < cfg.max_workers
       /\ \A u \in DOMAIN rt :
              Position(cfg.test_names, u) < Position(cfg.test_names, t)
                  => rt[u].pc # "queued"

\* run_test up to the submission of every task to its own pool
RT_Start(t) ==
    /\ t \in DOMAIN rt
    /\ TestWorkerFree(t)
    /\ IF t \notin DOMAIN cfg.tests
       THEN /\ rt' = [rt EXCEPT ![t].pc = "returned"]
            /\ UNCHANGED calls
       ELSE LET test_tasks == TestTasks(t)
                new == {<<t, k>> : k \in 1..Len(test_tasks)}
            IN /\ calls' = [c \in DOMAIN calls \cup new |->
                              IF c \in new
                              THEN NewCall(test_tasks[c[2]][1], test_tasks[c[2]][2],
                                           test_tasks[c[2]][3], t)
                              ELSE calls[c]]
               /\ rt' = [rt EXCEPT ![t].pc = "collecting",
                                   ![t].total_runs = Len(test_tasks)]
    /\ UNCHANGED <<cfg, impl, sem, rat, failed_log>>

\* faulty variant: run_number left out of the error result, so it keeps its default
ExecutionFailed_DefaultRun(c) ==
    TestResult(calls[c].test, calls[c].model, FALSE,
               IF calls[c].test \in DOMAIN cfg.tests
               THEN cfg.tests[calls[c].test].expected_output ELSE <<>>,
               <<>>, 1,
               Some(<<"Model execution failed:">> \o calls[c].exc[1]), None, None)

\* the error result run_test makes for a future that ended with an exception
ExecutionFailed(c) ==
    TestResult(calls[c].test, calls[c].model, FALSE,
               IF calls[c].test \in DOMAIN cfg.tests
               THEN cfg.tests[calls[c].test].expected_output ELSE <<>>,
               <<>>, calls[c].run,
               Some(<<"Model execution failed:">> \o calls[c].exc[1]), None, None)

\* faulty variant: a future that ended with an exception is skipped
RT_Collect_Drops(c) ==
    /\ c \in DOMAIN calls
    /\ calls[c].pool \in DOMAIN rt
    /\ rt[calls[c].pool].pc = "collecting"
    /\ \/ /\ calls[c].pc = "returned"
          /\ rt' = [rt EXCEPT ![calls[c].pool].results = Append(@, calls[c].ret[1])]
       \/ /\ calls[c].pc = "raised"
          /\ UNCHANGED rt
    /\ calls' = [calls EXCEPT ![c].pc = "collected"]
    /\ UNCHANGED <<cfg, impl, sem, rat, failed_log>>

\* one turn of the as_completed loop: a finished future's result is appended,
\* or the error result made for its exception is logged and appended
RT_Collect(c) ==
    /\ c \in DOMAIN calls
    /\ calls[c].pool \in DOMAIN rt
    /\ rt[calls[c].pool].pc = "collecting"
    /\ \/ /\ calls[c].pc = "returned"
          /\ rt' = [rt EXCEPT ![calls[c].pool].results = Append(@, calls[c].ret[1])]
          /\ UNCHANGED failed_log
       \/ /\ calls[c].pc = "raised"
          /\ rt' = [rt EXCEPT ![calls[c].pool].results = Append(@, ExecutionFailed(c))]
          /\ failed_log' = log_failed_test(failed_log, ExecutionFailed(c))
    /\ calls' = [calls EXCEPT ![c].pc = "collected"]
    /\ UNCHANGED <<cfg, impl, sem, rat>>

\* the loop is over and the pool shut down: run_test returns its results
RT_Return(t) ==
    /\ t \in DOMAIN rt
    /\ rt[t].pc = "collecting"
    /\ \A c \in PoolCalls(t) : calls[c].pc = "collected"
    /\ rt' = [rt EXCEPT ![t].pc = "returned"]
    /\ UNCHANGED <<cfg, impl, sem, calls, rat, failed_log>>

\* the submitted work item ends with an exception instead of a result.  No
\* statement of run_single_test outside its handlers raises, so this is the
\* case run_test's except clause is written for; the with-block releases the
\* permit on the way out.
WorkItemRaises(c) ==
    /\ c \in DOMAIN calls
    /\ calls[c].pool # "direct"
    /\ calls[c].pc = "calling"
    /\ calls' = [calls EXCEPT ![c].pc = "raised", ![c].exc = Some(<<"worker failure">>)]
    /\ sem' = [sem EXCEPT ![get_provider_semaphore(calls[c].model)] = @ + 1]
    /\ UNCHANGED <<cfg, impl, rt, rat, failed_log>>

NewRunTest(pc) == [pc |-> pc, results |-> <<>>, total_runs |-> 0]

-----------------------------------------------------------------------------
(* The same calls with _log_failed_test taken step by step: the lock is     *)
(* waited for, taken, and the entry written or the write refused.           *)

\* the call went through the with-block and still holds its permit
HoldsPermit(c) ==
    /\ calls[c].test \in DOMAIN cfg.tests
    /\ calls[c].model \in DOMAIN cfg.models
    /\ IsNone(calls[c].exc)

\* run_single_test up to the configuration checks; a failed check makes the
\* error result and goes on to log it
RST_Check(c) ==
    /\ calls[c].pc = "queued"
    /\ WorkerFree(c)
    /\ LET t == calls[c].test
           m == calls[c].model
           r == calls[c].run
       IN IF t \notin DOMAIN cfg.tests
          THEN calls' = [calls EXCEPT ![c].pc = "log_wait",
                                      ![c].ret = Some(TestNotFound(t, m, r))]
          ELSE IF m \notin DOMAIN cfg.models
          THEN calls' = [calls EXCEPT ![c].pc = "log_wait",
                                      ![c].ret = Some(ModelNotFound(t, m, r))]
          ELSE calls' = [calls EXCEPT ![c].pc = "waiting"]
    /\ UNCHANGED <<cfg, impl, sem, rt, rat, failed_log>>

\* the with-block up to the call of _log_failed_test: a passing result is
\* returned at once (nothing is logged for it), a failing one goes on to the
\* lock with its permit still held
RST_Classify(c) ==
    /\ calls[c].pc = "calling"
    /\ \E beh \in Behaviours(calls[c].model, cfg.tests[calls[c].test].prompt),
          elapsed \in WallClockMs :
        LET body == RunSingleBody(calls[c].test, calls[c].model, calls[c].run,
                                  beh, elapsed)
            done == [calls EXCEPT
                        ![c].beh = Some(beh),
                        ![c].ret = Some(body.result),
                        ![c].n_create = @ + 1,
                        ![c].n_generate = @ + (IF beh.generated THEN 1 ELSE 0)]
        IN IF body.result.passed
           THEN /\ calls' = [done EXCEPT ![c].pc = "returned"]
                /\ sem' = [sem EXCEPT ![get_provider_semaphore(calls[c].model)] = @ + 1]
           ELSE /\ calls' = [done EXCEPT ![c].pc = "log_wait"]
                /\ UNCHANGED sem
    /\ UNCHANGED <<cfg, impl, rt, rat, failed_log>>

\* one turn of the as_completed loop up to the call of _log_failed_test: a
\* result is appended; for an exception the error result is made and the
\* collecting thread goes on to log it
RT_Take(c) ==
    /\ c \in DOMAIN calls
    /\ calls[c].pool \in DOMAIN rt
    /\ rt[calls[c].pool].pc = "collecting"
    /\ \A d \in PoolCalls(calls[c].pool) :
          calls[d].pc \in {"log_wait", "logging"} => IsNone(calls[d].exc)
    /\ \/ /\ calls[c].pc = "returned"
          /\ rt' = [rt EXCEPT ![calls[c].pool].results = Append(@, calls[c].ret[1])]
          /\ calls' = [calls EXCEPT ![c].pc = "collected"]
       \/ /\ calls[c].pc = "raised"
          /\ calls' = [calls EXCEPT ![c].pc = "log_wait", ![c].ret = Some(ExecutionFailed(c))]
          /\ UNCHANGED rt
    /\ UNCHANGED <<cfg, impl, sem, rat, failed_log>>

\* faulty variant: the file is opened without the lock
Log_Enter_NoLock(c) ==
    /\ c \in DOMAIN calls
    /\ calls[c].pc = "log_wait"
    /\ calls' = [calls EXCEPT ![c].pc = "logging"]
    /\ UNCHANGED <<cfg, impl, sem, rt, rat, failed_log>>

\* with self.log_lock: blocks while another thread is inside
Log_Enter(c) ==
    /\ c \in DOMAIN calls
    /\ calls[c].pc = "log_wait"
    /\ \A d \in DOMAIN calls : calls[d].pc # "logging"
    /\ calls' = [calls EXCEPT ![c].pc = "logging"]
    /\ UNCHANGED <<cfg, impl, sem, rt, rat, failed_log>>

\* the entry is written, or open/write raises and the handler prints the
\* warning; the lock is left, and the thread goes on: run_single_test
\* returns its result and leaves the with-block, run_test appends its error
\* result
Log_Write(c) ==
    /\ c \in DOMAIN calls
    /\ calls[c].pc = "logging"
    /\ \E written \in BOOLEAN :
          /\ failed_log' = IF written THEN log_failed_test(failed_log, calls[c].ret[1])
                           ELSE failed_log
          /\ IF IsSome(calls[c].exc)
             THEN /\ calls' = [calls EXCEPT ![c].pc = "collected", ![c].warned = ~written]
                  /\ rt' = [rt EXCEPT ![calls[c].pool].results = Append(@, calls[c].ret[1])]
                  /\ UNCHANGED sem
             ELSE /\ calls' = [calls EXCEPT ![c].pc = "returned", ![c].warned = ~written]
                  /\ sem' = IF HoldsPermit(c)
                            THEN [sem EXCEPT ![get_provider_semaphore(calls[c].model)] = @ + 1]
                            ELSE sem
                  /\ UNCHANGED rt
    /\ UNCHANGED <<cfg, impl, rat>>

-----------------------------------------------------------------------------
(* run_all_tests.                                                           *)

TestNameSet == {cfg.test_names[k] : k \in 1..Len(cfg.test_names)}

\* every test is submitted to the test-level pool
RAT_Start ==
    /\ rat.pc = "called"
    /\ rt' = [t \in TestNameSet |-> NewRunTest("queued")]
    /\ rat' = [rat EXCEPT !.pc = "collecting"]
    /\ UNCHANGED <<cfg, impl, sem, calls, failed_log>>

\* faulty variant: the map is rebuilt from the test just collected
RAT_Collect_Overwrites(t) ==
    /\ rat.pc = "collecting"
    /\ t \in DOMAIN rt
    /\ rt[t].pc = "returned"
    /\ rat' = [rat EXCEPT !.all_results = (t :> rt[t].results)]
    /\ rt' = [rt EXCEPT ![t].pc = "collected"]
    /\ UNCHANGED <<cfg, impl, sem, calls, failed_log>>

\* one turn of the as_completed loop over the tests: the list run_test
\* returned is stored under the test's name, or the empty list when the
\* future of run_test ended with an exception.  Nothing in run_test raises
\* while the console takes its output, so no action puts a test in "raised".
RAT_Collect(t) ==
    /\ rat.pc = "collecting"
    /\ t \in DOMAIN rt
    /\ rt[t].pc \in {"returned", "raised"}
    /\ rat' = [rat EXCEPT !.all_results =
                  [u \in DOMAIN rat.all_results \cup {t} |->
                      IF u = t
                      THEN (IF rt[t].pc = "returned" THEN rt[t].results ELSE <<>>)
                      ELSE rat.all_results[u]]]
    /\ rt' = [rt EXCEPT ![t].pc = "collected"]
    /\ UNCHANGED <<cfg, impl, sem, calls, failed_log>>

RAT_Return ==
    /\ rat.pc = "collecting"
    /\ \A t \in DOMAIN rt : rt[t].pc = "collected"
    /\ rat' = [rat EXCEPT !.pc = "returned"]
    /\ UNCHANGED <<cfg, impl, sem, calls, rt, failed_log>>

-----------------------------------------------------------------------------
(* BaseConnector.generate: the retry loop around _generate_single.          *)

MaxRetries == 3     \* largest max_retries of a connector

Digits == <<"1", "2", "3", "4", "5", "6">>

\* what one call of _generate_single may do: return a text, an empty or a
\* blank text, a result with an error, or raise
SingleOutcomes ==
    { [kind |-> "return", result |-> GenerateResult(t, None)] :
          t \in {Hi, <<>>, <<" ">>} }
    \cup { [kind |-> "return", result |-> GenerateResult(<<>>, Some(<<"HTTP 500">>))],
           [kind |-> "raise", result |-> NoResult] }

\* faulty variant: every result without an error is tried again
should_retry_empty_response_Always(result) == TRUE

\* _should_retry_empty_response: False in BaseConnector; the remote
\* connectors override it with `not result.text or result.text.strip() == ""`
should_retry_empty_response(result) ==
    retry.retries_empty /\ (Len(result.text) = 0 \/ Strip(result.text) = <<>>)

\* _should_retry
should_retry(result, attempt) ==
    IF attempt >= retry.max_retries THEN FALSE
    ELSE IF IsSome(result.error) THEN TRUE
    ELSE should_retry_empty_response(result)

\* the result made for an attempt that raised
UnexpectedError(attempt) ==
    GenerateResult(<<>>, Some(<<"Unexpected error on attempt", Digits[attempt + 1]>>))

\* faulty variant: no except clause, an exception of the attempt leaves generate
GWR_Attempt_Propagates ==
    /\ retry.pc = "looping"
    /\ retry.attempt <= retry.max_retries
    /\ \E o \in SingleOutcomes :
          IF o.kind = "return"
          THEN IF ~should_retry(o.result, retry.attempt)
               THEN retry' = [retry EXCEPT !.pc = "returned",
                                           !.history = Append(@, o),
                                           !.last_result = Some(o.result),
                                           !.ret = Some(o.result)]
               ELSE retry' = [retry EXCEPT !.attempt = @ + 1,
                                           !.history = Append(@, o),
                                           !.last_result = Some(o.result)]
          ELSE retry' = [retry EXCEPT !.pc = "raised", !.history = Append(@, o)]
    /\ UNCHANGED <<runner, lev, report, ws>>

\* one turn of the loop `for attempt in range(self.max_retries + 1)`: the
\* attempt is made; its result is returned if it is not to be retried; an
\* exception is turned into an error result; the waiting before the next
\* turn takes time and changes nothing
GWR_Attempt ==
    /\ retry.pc = "looping"
    /\ retry.attempt <= retry.max_retries
    /\ \E o \in SingleOutcomes :
          IF o.kind = "return"
          THEN IF ~should_retry(o.result, retry.attempt)
               THEN retry' = [retry EXCEPT !.pc = "returned",
                                           !.history = Append(@, o),
                                           !.last_result = Some(o.result),
                                           !.ret = Some(o.result)]
               ELSE retry' = [retry EXCEPT !.attempt = @ + 1,
                                           !.history = Append(@, o),
                                           !.last_result = Some(o.result)]
          ELSE retry' = [retry EXCEPT !.attempt = @ + 1,
                                      !.history = Append(@, o),
                                      !.last_result = Some(UnexpectedError(retry.attempt))]
    /\ UNCHANGED <<runner, lev, report, ws>>

\* the loop is over without a return ("All retries exhausted"): the last
\* result's error is prefixed, or an error result is made
GWR_Exhausted ==
    /\ retry.pc = "looping"
    /\ retry.attempt > retry.max_retries
    /\ LET failed == <<"Failed after", Digits[retry.max_retries + 1], "attempts">>
           last_result ==
               IF IsSome(retry.last_result) /\ IsSome(retry.last_result[1].error)
               THEN [retry.last_result[1] EXCEPT
                        !.error = Some(failed \o <<"Last error:">> \o @[1])]
               ELSE GenerateResult(<<>>, Some(failed \o <<"with empty responses">>))
       IN retry' = [retry EXCEPT !.pc = "returned",
                                 !.last_result = Some(last_result),
                                 !.ret = Some(last_result)]
    /\ UNCHANGED <<runner, lev, report, ws>>


-----------------------------------------------------------------------------
(* Configurations and initial states.                                       *)

MaxRuns == 2        \* largest run count of an entry, and of runs_per_test
MaxWorkers == 2     \* largest max_workers
LoadCallers == 6    \* threads calling run_single_test at once (SpecLoad)


ExpectedTexts == { <<>>, <<" ">>, Hi, <<"H", "I">>, <<"h", "i", " ">> }

Tests1(expected, exact) ==
    "greet" :> [prompt |-> Hi, expected_output |-> expected, exact_match |-> exact]

Tests2 ==
    ("greet" :> [prompt |-> Hi, expected_output |-> Hi, exact_match |-> TRUE])
    @@ ("find" :> [prompt |-> Hi, expected_output |-> <<"H">>, exact_match |-> FALSE])

ModelConfig(provider, local, key_valid) ==
    [provider |-> provider, local |-> local, key_valid |-> key_valid]

Models ==
    ("claude" :> ModelConfig("anthropic", FALSE, TRUE))
    @@ ("gpt" :> ModelConfig("openai", FALSE, TRUE))
    @@ ("echo-1" :> ModelConfig("echo", TRUE, FALSE))
    @@ ("rev" :> ModelConfig("reverse-echo", TRUE, FALSE))

Explicit(name, runs) == [name |-> name, runs |-> runs, runs_set |-> TRUE]
Default(name) == [name |-> name, runs |-> 1, runs_set |-> FALSE]

Config(tests, test_names, models, run_models, runs_per_test, max_workers) ==
    [tests |-> tests, test_names |-> test_names, models |-> models,
     run_models |-> run_models, runs_per_test |-> runs_per_test,
     max_workers |-> max_workers]

NoRunAllTests == [pc |-> "unused", all_results |-> <<>>]

\* one direct call of run_single_test, on any test name, model name and
\* connector
SingleInit ==
    /\ cfg \in { Config(Tests1(e, x), <<"greet">>, "m1" :> mc, <<>>, 1, 1) :
                    e \in ExpectedTexts, x \in BOOLEAN,
                    mc \in { ModelConfig(p, l, k) :
                               p \in {"echo", "reverse-echo", "anthropic", "custom"},
                               l \in BOOLEAN, k \in BOOLEAN } }
    /\ impl \in {"registry", "stub"}
    /\ sem = rate_limiters
    /\ calls \in { <<"direct", 1>> :> NewCall(t, m, r, "direct") :
                      t \in {"greet", "nosuch"}, m \in {"m1", "ghost"}, r \in 1..MaxRuns }
    /\ rt = <<>>
    /\ rat = NoRunAllTests
    /\ failed_log = EmptyBag
    /\ lev = NoLev
    /\ retry = NoRetry
    /\ ws = NoSocket
    /\ report = NoReport

SingleNext ==
    \/ \E c \in DOMAIN calls : RST_Begin(c) /\ UNCHANGED calc
    \/ \E c \in DOMAIN calls : RST_Acquire(c) /\ UNCHANGED calc
    \/ \E c \in DOMAIN calls : RST_Finish(c) /\ UNCHANGED calc

SpecSingle == SingleInit /\ [][SingleNext]_vars

\* LoadCallers threads call run_single_test for one model at the same time
LoadInit ==
    /\ cfg = Config(Tests1(Hi, TRUE), <<"greet">>,
                    Models @@ ("local-x" :> ModelConfig("custom", TRUE, FALSE)),
                    <<>>, 1, 1)
    /\ \E m \in DOMAIN cfg.models :
          /\ calls = [c \in {<<"direct", i>> : i \in 1..LoadCallers} |->
                         NewCall("greet", m, c[2], "direct")]
          /\ impl \in {"registry"} \cup (IF m = "claude" THEN {"small_stub"} ELSE {})
    /\ sem = rate_limiters
    /\ rt = <<>>
    /\ rat = NoRunAllTests
    /\ failed_log = EmptyBag
    /\ lev = NoLev
    /\ retry = NoRetry
    /\ ws = NoSocket
    /\ report = NoReport

SpecLoad == LoadInit /\ [][SingleNext]_vars

\* LoadCallers threads call run_single_test at the same time, the first k for
\* a model of provider echo and the others for a model of a provider that
\* has no limiter of its own
SharedInit ==
    /\ cfg = Config(Tests1(Hi, TRUE), <<"greet">>,
                    Models @@ ("local-x" :> ModelConfig("custom", TRUE, FALSE)),
                    <<>>, 1, 1)
    /\ impl = "registry"
    /\ sem = rate_limiters
    /\ \E k \in 0..LoadCallers : \E other \in {"local-x", "rev"} :
          calls = [c \in {<<"direct", i>> : i \in 1..LoadCallers} |->
                      NewCall("greet", IF c[2] <= k THEN "echo-1" ELSE other, c[2], "direct")]
    /\ rt = <<>>
    /\ rat = NoRunAllTests
    /\ failed_log = EmptyBag
    /\ lev = NoLev
    /\ retry = NoRetry
    /\ ws = NoSocket
    /\ report = NoReport

SpecShared == SharedInit /\ [][SingleNext]_vars

\* as many threads as the anthropic limiter has permits call run_single_test
\* for an anthropic model, and one more thread calls it with a test name or a
\* model name that is not configured
BusyInit ==
    /\ cfg = Config(Tests1(Hi, TRUE), <<"greet">>, Models, <<>>, 1, 1)
    /\ impl = "registry"
    /\ sem = rate_limiters
    /\ \E t \in {"greet", "nosuch"}, m \in {"claude", "ghost"} :
          /\ t = "nosuch" \/ m = "ghost"
          /\ calls = [c \in {<<"direct", i>> : i \in 1..(AnthropicCap + 1)} |->
                         IF c[2] <= AnthropicCap
                         THEN NewCall("greet", "claude", c[2], "direct")
                         ELSE NewCall(t, m, 1, "direct")]
    /\ rt = <<>>
    /\ rat = NoRunAllTests
    /\ failed_log = EmptyBag
    /\ lev = NoLev
    /\ retry = NoRetry
    /\ ws = NoSocket
    /\ report = NoReport

SpecBusy == BusyInit /\ [][SingleNext]_vars

\* one direct call of run_test
RunLists ==
    LET claude == { Explicit("claude", r) : r \in 1..MaxRuns } \cup { Default("claude") }
    IN { <<e>> : e \in claude }
       \cup { <<e, Explicit("ghost", 1)>> : e \in claude }
       \cup { <<Default("ghost"), Explicit("echo-1", 1)>> }

TestInit ==
    /\ cfg \in { Config(Tests1(Hi, x), <<"greet">>, Models, l, n, w) :
                    x \in BOOLEAN, l \in RunLists, n \in 1..MaxRuns, w \in 1..MaxWorkers }
    /\ impl \in {"registry", "small_stub"}
    /\ sem = rate_limiters
    /\ calls = <<>>
    /\ rt = "greet" :> NewRunTest("called")
    /\ rat = NoRunAllTests
    /\ failed_log = EmptyBag
    /\ lev = NoLev
    /\ retry = NoRetry
    /\ ws = NoSocket
    /\ report = NoReport

TestNext ==
    \/ \E t \in DOMAIN rt : RT_Start(t) /\ UNCHANGED calc
    \/ \E t \in DOMAIN rt : RT_Return(t) /\ UNCHANGED calc
    \/ SingleNext
    \/ \E c \in DOMAIN calls : WorkItemRaises(c) /\ UNCHANGED calc
    \/ \E c \in DOMAIN calls : RT_Collect(c) /\ UNCHANGED calc

SpecTest == TestInit /\ [][TestNext]_vars

\* one direct call of run_test whose tasks fail, pass, or name an unknown
\* model, the log file writable or not
LogInit ==
    /\ cfg \in { Config(Tests1(Hi, TRUE), <<"greet">>, Models,
                        <<Explicit("claude", MaxRuns), Explicit("ghost", 1)>>, 1, w) :
                    w \in 1..MaxWorkers }
    /\ impl \in {"registry", "small_stub"}
    /\ sem = rate_limiters
    /\ calls = <<>>
    /\ rt = "greet" :> NewRunTest("called")
    /\ rat = NoRunAllTests
    /\ failed_log = EmptyBag
    /\ lev = NoLev
    /\ retry = NoRetry
    /\ ws = NoSocket
    /\ report = NoReport

LogNext ==
    \/ \E t \in DOMAIN rt : RT_Start(t) /\ UNCHANGED calc
    \/ \E t \in DOMAIN rt : RT_Return(t) /\ UNCHANGED calc
    \/ \E c \in DOMAIN calls : RST_Check(c) /\ UNCHANGED calc
    \/ \E c \in DOMAIN calls : RST_Acquire(c) /\ UNCHANGED calc
    \/ \E c \in DOMAIN calls : RST_Classify(c) /\ UNCHANGED calc
    \/ \E c \in DOMAIN calls : WorkItemRaises(c) /\ UNCHANGED calc
    \/ \E c \in DOMAIN calls : RT_Take(c) /\ UNCHANGED calc
    \/ \E c \in DOMAIN calls : Log_Enter(c) /\ UNCHANGED calc
    \/ \E c \in DOMAIN calls : Log_Write(c) /\ UNCHANGED calc

SpecLog == LogInit /\ [][LogNext]_vars

\* run lists for run_all_tests: the default count alone, an explicit count
\* above or below the default, and two models
SuiteRunLists(n) ==
    {<<Default("claude")>>}
    \cup (IF n = 1 THEN {<<Explicit("claude", 2)>>, <<Explicit("echo-1", 1), Default("claude")>>}
          ELSE {})
    \cup (IF n = 2 THEN {<<Explicit("claude", 1)>>} ELSE {})

\* run_all_tests over two tests
Init ==
    /\ \E n \in 1..MaxRuns, w \in 1..MaxWorkers :
          \E l \in SuiteRunLists(n) :
              cfg = Config(Tests2, <<"greet", "find">>, Models, l, n, w)
    /\ impl = "registry"
    /\ sem = rate_limiters
    /\ calls = <<>>
    /\ rt = <<>>
    /\ rat = [pc |-> "called", all_results |-> <<>>]
    /\ failed_log = EmptyBag
    /\ lev = NoLev
    /\ retry = NoRetry
    /\ ws = NoSocket
    /\ report = NoReport

Next ==
    \/ RAT_Start /\ UNCHANGED calc
    \/ RAT_Return /\ UNCHANGED calc
    \/ \E t \in DOMAIN rt : RAT_Collect(t) /\ UNCHANGED calc
    \/ TestNext

Spec == Init /\ [][Next]_vars

\* run_all_tests over two tests, or over one test with more runs on one
\* provider than its limiter has permits, each in a worker of its own
LiveInit ==
    /\ \/ \E w \in 1..MaxWorkers : \E l \in SuiteRunLists(1) :
             cfg = Config(Tests2, <<"greet", "find">>, Models, l, 1, w)
       \/ cfg = Config(Tests1(Hi, TRUE), <<"greet">>, Models,
                       <<Explicit("claude", AnthropicCap + 1)>>, 1, AnthropicCap + 1)
    /\ impl = "registry"
    /\ sem = rate_limiters
    /\ calls = <<>>
    /\ rt = <<>>
    /\ rat = [pc |-> "called", all_results |-> <<>>]
    /\ failed_log = EmptyBag
    /\ lev = NoLev
    /\ retry = NoRetry
    /\ ws = NoSocket
    /\ report = NoReport

\* every thread that can take a step takes one in the end: a connector call
\* returns or raises, a free worker takes the next item, a free permit is
\* taken by a waiting call.  No work item fails outside run_single_test.
LiveNext ==
    \/ RAT_Start /\ UNCHANGED calc
    \/ RAT_Return /\ UNCHANGED calc
    \/ \E t \in DOMAIN rt : RAT_Collect(t) /\ UNCHANGED calc
    \/ \E t \in DOMAIN rt : RT_Start(t) /\ UNCHANGED calc
    \/ \E t \in DOMAIN rt : RT_Return(t) /\ UNCHANGED calc
    \/ \E c \in DOMAIN calls : RT_Collect(c) /\ UNCHANGED calc
    \/ SingleNext

SpecLive == LiveInit /\ [][LiveNext]_vars /\ WF_vars(LiveNext)

-----------------------------------------------------------------------------
(* A caller of levenshtein_distance.                                        *)

MaxLen == 3         \* longest argument of levenshtein_distance (SpecLev)

Alphabet == {"a", "b"}
Strings == UNION { [1..k -> Alphabet] : k \in 0..MaxLen }

kitten == <<"k", "i", "t", "t", "e", "n">>
sitting == <<"s", "i", "t", "t", "i", "n", "g">>
sitten == <<"s", "i", "t", "t", "e", "n">>

\* the runner is constructed and not used
RunnerIdle ==
    /\ cfg = Config(Tests2, <<"greet", "find">>, Models, <<Default("claude")>>, 1, 1)
    /\ impl = "registry"
    /\ sem = rate_limiters
    /\ calls = <<>>
    /\ rt = <<>>
    /\ rat = NoRunAllTests
    /\ failed_log = EmptyBag

\* three texts: every triple of short texts, and the words of the unit test
LevInit ==
    /\ RunnerIdle
    /\ \E t \in (Strings \X Strings \X Strings)
                \cup {<<kitten, sitting, sitten>>, <<kitten, sitten, sitting>>} :
          lev = [pc |-> "input", a |-> t[1], b |-> t[2], c |-> t[3], d |-> <<>>]
    /\ report = NoReport
    /\ retry = NoRetry
    /\ ws = NoSocket

\* the distances among the three texts, and to the empty text, are computed
levenshtein_calls ==
    /\ lev.pc = "input"
    /\ lev' = [lev EXCEPT
                  !.pc = "done",
                  !.d = [ab |-> levenshtein_distance(lev.a, lev.b),
                         ba |-> levenshtein_distance(lev.b, lev.a),
                         bc |-> levenshtein_distance(lev.b, lev.c),
                         ac |-> levenshtein_distance(lev.a, lev.c),
                         aa |-> levenshtein_distance(lev.a, lev.a),
                         ea |-> levenshtein_distance(<<>>, lev.a),
                         ae |-> levenshtein_distance(lev.a, <<>>)]]
    /\ UNCHANGED <<runner, report, connector>>

LevNext == levenshtein_calls

SpecLev == LevInit /\ [][LevNext]_vars

\* generate is called on a connector made with max_retries, of a class that
\* retries empty responses or of one that does not
RetryInit ==
    /\ RunnerIdle
    /\ lev = NoLev
    /\ report = NoReport
    /\ \E n \in 0..MaxRetries, e \in BOOLEAN :
          retry = [pc |-> "looping", retries_empty |-> e, max_retries |-> n,
                   attempt |-> 0, history |-> <<>>, last_result |-> None, ret |-> None]
    /\ ws = NoSocket

RetryNext == GWR_Attempt \/ GWR_Exhausted

SpecRetry == RetryInit /\ [][RetryNext]_vars

-----------------------------------------------------------------------------
(* OpenAIRealtimeWebSocketConnector: the attempts of one generate call on   *)
(* one connector, and the callbacks of its socket threads.  A socket is     *)
(* named by the number of the attempt that opened it; the session the       *)
(* server opens on socket s has id s, a text delta on socket s is Digits[s]. *)

MaxDeltas == 1      \* most text deltas kept in response_text

Running == {"session_wait", "response_wait", "closing"}

\* the attempt ends: its outcome is recorded, the finally clause clears
\* session_id, generate_with_retry goes on to the next attempt
AttemptEnds(w, outcome) ==
    [w EXCEPT !.pc = "idle", !.session_id = None, !.results = Append(@, outcome)]

\* _generate_single up to the start of the socket thread: the fields are
\* reset, a new WebSocketApp is made with the connector's bound methods as
\* callbacks, its thread is started
WS_Start ==
    /\ ws.pc = "idle"
    /\ ws.attempt <= MaxRetries
    /\ ws' = [ws EXCEPT !.pc = "session_wait",
                        !.attempt = @ + 1,
                        !.response_received = FALSE,
                        !.response_text = <<>>,
                        !.response_error = None,
                        !.session_id = None,
                        !.sockets = @ \cup {ws.attempt + 1}]
    /\ UNCHANGED <<runner, lev, report, retry>>

\* the wait for session.created ends after 5 seconds without a session id:
\* the error result is returned; the socket is not closed and its thread
\* not joined
WS_SessionTimeout ==
    /\ ws.pc = "session_wait"
    /\ IsNone(ws.session_id)
    /\ ws' = AttemptEnds(ws, "Failed to create session within timeout")
    /\ UNCHANGED <<runner, lev, report, retry>>

\* the wait ends with a session id: the two messages are sent on the
\* attempt's socket.  The send raises if that socket is not connected,
\* which can be when the id is not of its own session; the exception ends
\* the attempt, the socket stays as it is.
WS_SessionReady ==
    /\ ws.pc = "session_wait"
    /\ IsSome(ws.session_id)
    /\ \E sent \in (IF ws.session_id[1] = ws.attempt THEN {TRUE} ELSE BOOLEAN) :
          ws' = IF sent THEN [ws EXCEPT !.pc = "response_wait"]
                ELSE AttemptEnds(ws, "raised")
    /\ UNCHANGED <<runner, lev, report, retry>>

\* the wait for the response ends, by response_received or after timeout_s
\* seconds, and the socket is closed
WS_Close ==
    /\ ws.pc = "response_wait"
    /\ ws' = [ws EXCEPT !.pc = "closing"]
    /\ UNCHANGED <<runner, lev, report, retry>>

\* ws_thread.join(timeout=3) returns, the thread ended or not; the result
\* is made of the fields.  Each of the three results is constructed with
\* the first_byte_latency_ms keyword GenerateResult does not declare, as is
\* the one of the except clause: the attempt ends with TypeError.
WS_Join ==
    /\ ws.pc = "closing"
    /\ ws' = AttemptEnds(ws, "raised")
    /\ UNCHANGED <<runner, lev, report, retry>>

\* _on_message, called by the thread of socket s
WS_OnMessage(s) ==
    /\ ws.pc # "unused"
    /\ s \in ws.sockets
    /\ \E type \in {"session.created", "response.output_text.delta", "response.done", "error"} :
          CASE type = "session.created" ->
                  ws' = [ws EXCEPT !.session_id = Some(s)]
            [] type = "response.output_text.delta" ->
                  /\ Len(ws.response_text) < MaxDeltas
                  /\ ws' = [ws EXCEPT !.response_text = Append(@, Digits[s])]
            [] type = "response.done" ->
                  ws' = [ws EXCEPT !.response_received = TRUE]
            [] type = "error" ->
                  ws' = [ws EXCEPT !.response_error = Some(<<"Unknown error">>),
                                   !.response_received = TRUE]
    /\ UNCHANGED <<runner, lev, report, retry>>

\* _on_error, called by the thread of socket s
WS_OnError(s) ==
    /\ ws.pc # "unused"
    /\ s \in ws.sockets
    /\ ws' = [ws EXCEPT !.response_error = Some(<<"WebSocket error">>),
                        !.response_received = TRUE]
    /\ UNCHANGED <<runner, lev, report, retry>>

\* _on_close, called by the thread of socket s, which ends after it
WS_OnClose(s) ==
    /\ ws.pc # "unused"
    /\ s \in ws.sockets
    /\ ws' = IF ~ws.response_received /\ IsNone(ws.response_error)
             THEN [ws EXCEPT
                      !.response_error = Some(<<"WebSocket connection closed unexpectedly">>),
                      !.response_received = TRUE,
                      !.sockets = @ \ {s}]
             ELSE [ws EXCEPT !.sockets = @ \ {s}]
    /\ UNCHANGED <<runner, lev, report, retry>>

\* a connector as __init__ leaves it, about to be asked for its first attempt
SocketInit ==
    /\ RunnerIdle
    /\ lev = NoLev
    /\ report = NoReport
    /\ retry = NoRetry
    /\ ws = [pc |-> "idle", attempt |-> 0, response_received |-> FALSE,
             response_text |-> <<>>, response_error |-> None, session_id |-> None,
             sockets |-> {}, results |-> <<>>]

SocketNext ==
    \/ WS_Start
    \/ WS_SessionTimeout
    \/ WS_SessionReady
    \/ WS_Close
    \/ WS_Join
    \/ \E s \in 1..(MaxRetries + 1) : WS_OnMessage(s)
    \/ \E s \in 1..(MaxRetries + 1) : WS_OnError(s)
    \/ \E s \in 1..(MaxRetries + 1) : WS_OnClose(s)

SpecSocket == SocketInit /\ [][SocketNext]_vars

-----------------------------------------------------------------------------
(* The reports.  Python's float arithmetic is modelled by exact fractions   *)
(* [n, d] with d > 0.                                                        *)

Rat(n, d) == [n |-> n, d |-> d]
RatInt(k) == Rat(k, 1)
RatEq(x, y) == x.n * y.d = y.n * x.d
RatLE(x, y) == x.n * y.d <= y.n * x.d
RatLT(x, y) == x.n * y.d < y.n * x.d
RatSub(x, y) == Rat(x.n * y.d - y.n * x.d, x.d * y.d)
RatDivInt(x, k) == Rat(x.n, x.d * k)
RatMin(x, y) == IF RatLE(x, y) THEN x ELSE y
RatMax(x, y) == IF RatLE(y, x) THEN x ELSE y

\* the order of the keys of the results dict, and all its outcomes
TestOrder == SelectSeq(<<"greet", "find">>, LAMBDA t : t \in DOMAIN report.results)

OfModel(rs, m) == SelectSeq(rs, LAMBDA r : r.model_name = m)
PassedCount(rs) == Len(SelectSeq(rs, LAMBDA r : r.passed))
WithDistance(rs) == SelectSeq(rs, LAMBDA r : IsSome(r.distance))
ModelsIn(rs) == {rs[k].model_name : k \in 1..Len(rs)}

\* sum(r.distance or 0 for r in rs)
RECURSIVE DistanceSum(_)
DistanceSum(rs) ==
    IF Len(rs) = 0 THEN 0
    ELSE (IF IsSome(Head(rs).distance) THEN Head(rs).distance[1] ELSE 0)
         + DistanceSum(Tail(rs))

RECURSIVE AllOutcomes(_, _)
AllOutcomes(results, tests) ==
    IF Len(tests) = 0 THEN <<>>
    ELSE results[Head(tests)] \o AllOutcomes(results, Tail(tests))

\* _print_model_comparison_table, first loop: the totals of model m added up
\* test by test
RECURSIVE TableTotals(_, _, _)
TableTotals(results, tests, m) ==
    IF Len(tests) = 0 THEN [total_tests |-> 0, passed_tests |-> 0, total_distance |-> 0]
    ELSE LET rest == TableTotals(results, Tail(tests), m)
             model_test_results == OfModel(results[Head(tests)], m)
         IN [total_tests |-> rest.total_tests + Len(model_test_results),
             passed_tests |-> rest.passed_tests + PassedCount(model_test_results),
             total_distance |-> rest.total_distance + DistanceSum(model_test_results)]

\* _print_model_comparison_table, second loop: the overall figures of model m,
\* the tests of the results dict taken in the order `tests'
TableStatsOf(results, tests, m) ==
    LET stats == TableTotals(results, tests, m)
        overall_pass_rate == Rat(stats.passed_tests * 100, stats.total_tests)
        overall_avg_distance == Rat(stats.total_distance, stats.total_tests)
        distance_penalty == RatMin(RatDivInt(overall_avg_distance, 100), RatInt(50))
        overall_score ==
            IF RatEq(overall_pass_rate, RatInt(100)) THEN RatInt(100)
            ELSE IF RatLT(RatInt(0), overall_pass_rate)
            THEN RatMax(RatSub(overall_pass_rate, distance_penalty), RatInt(0))
            ELSE RatMax(RatSub(RatInt(50), RatDivInt(overall_avg_distance, 10)), RatInt(0))
    IN [passed |-> stats.passed_tests, total |-> stats.total_tests,
        pass_rate |-> overall_pass_rate, avg_distance |-> overall_avg_distance,
        score |-> overall_score]

\* faulty variant: the penalty of a partly passing model is not capped
TableStats_UncappedPenalty(results, m) ==
    LET st == TableStatsOf(results, TestOrder, m)
    IN IF RatLT(RatInt(0), st.pass_rate) /\ RatLT(st.pass_rate, RatInt(100))
       THEN [st EXCEPT !.score = RatMax(RatSub(st.pass_rate, RatDivInt(st.avg_distance, 100)),
                                        RatInt(0))]
       ELSE st

\* faulty variant: a model that passed something is scored by the share of
\* its outcomes that failed
TableStats_ScoresFailRate(results, m) ==
    LET st == TableStatsOf(results, TestOrder, m)
    IN IF RatLT(RatInt(0), st.pass_rate)
       THEN [st EXCEPT !.score =
                RatMax(RatSub(RatSub(RatInt(100), st.pass_rate),
                              RatMin(RatDivInt(st.avg_distance, 100), RatInt(50))),
                       RatInt(0))]
       ELSE st

TableStats(results, m) == TableStatsOf(results, TestOrder, m)

\* _export_results_to_html: the figures of model m
HtmlStatsOf(results, tests, m) ==
    LET model_results == OfModel(AllOutcomes(results, tests), m)
        model_passed == PassedCount(model_results)
        model_total == Len(model_results)
        pass_rate == IF model_total > 0 THEN Rat(model_passed * 100, model_total) ELSE RatInt(0)
        exact_match_results == WithDistance(model_results)
        avg_distance == IF Len(exact_match_results) > 0
                        THEN Rat(DistanceSum(exact_match_results), Len(exact_match_results))
                        ELSE RatInt(0)
        distance_penalty == RatMin(RatDivInt(avg_distance, 100), RatInt(50))
        score0 == RatMax(RatSub(pass_rate, distance_penalty), RatInt(0))
        score == IF model_passed = 0 /\ RatLT(RatInt(0), avg_distance)
                 THEN RatMax(RatSub(RatInt(50), RatDivInt(avg_distance, 10)), RatInt(0))
                 ELSE score0
    IN [passed |-> model_passed, total |-> model_total, pass_rate |-> pass_rate,
        avg_distance |-> avg_distance, score |-> score]

HtmlStats(results, m) == HtmlStatsOf(results, TestOrder, m)

\* sorted(items, key=...): Python's sort is stable, items with equal keys keep
\* their order.  An item is [name, key] with key a fraction; Insert puts x
\* behind every item whose key is not greater.
RECURSIVE Insert(_, _)
Insert(x, sorted) ==
    IF Len(sorted) = 0 THEN <<x>>
    ELSE IF RatLT(x.key, Head(sorted).key) THEN <<x>> \o sorted
    ELSE <<Head(sorted)>> \o Insert(x, Tail(sorted))

RECURSIVE Sorted(_)
Sorted(items) ==
    IF Len(items) = 0 THEN <<>>
    ELSE Insert(items[Len(items)], Sorted(SubSeq(items, 1, Len(items) - 1)))

Names(items) == [k \in 1..Len(items) |-> items[k].name]

\* sorted(set of model names): the names in alphabetical order
NameOrder == <<"claude", "echo-1", "gpt">>
SortedModels(rs) == SelectSeq(NameOrder, LAMBDA m : m \in ModelsIn(rs))

\* the keys of model_stats in insertion order: a model enters at its first
\* outcome, the tests taken in the order of the results dict
RECURSIVE FirstSeen(_)
FirstSeen(rs) ==
    IF Len(rs) = 0 THEN <<>>
    ELSE LET before == FirstSeen(SubSeq(rs, 1, Len(rs) - 1))
             m == rs[Len(rs)].model_name
         IN IF \E k \in 1..Len(before) : before[k] = m THEN before ELSE Append(before, m)

\* _print_model_comparison_table: the rows, sorted by average distance
TableSortedModels(results, tests) ==
    LET keys == FirstSeen(AllOutcomes(results, tests))
    IN Names(Sorted([k \in 1..Len(keys) |->
                        [name |-> keys[k],
                         key |-> TableStatsOf(results, tests, keys[k]).avg_distance]]))

\* _export_results_to_html: the rows, sorted by score, highest first
HtmlSortedModels(results, tests) ==
    LET all_models == SortedModels(AllOutcomes(results, tests))
    IN Names(Sorted([k \in 1..Len(all_models) |->
                        [name |-> all_models[k],
                         key |-> RatSub(RatInt(0), HtmlStatsOf(results, tests, all_models[k]).score)]]))

\* _print_test_model_matrix: passed/total of a (test, model) cell, N/A for a
\* model without outcomes in the test
MatrixCell(test_results, m) ==
    LET model_test_results == OfModel(test_results, m)
    IN IF Len(model_test_results) = 0 THEN None
       ELSE Some([passed |-> PassedCount(model_test_results),
                  total |-> Len(model_test_results),
                  pass_rate |-> Rat(PassedCount(model_test_results) * 100,
                                    Len(model_test_results))])

RECURSIVE SumSeq(_)
SumSeq(xs) == IF Len(xs) = 0 THEN 0 ELSE Head(xs) + SumSeq(Tail(xs))

\* the latencies of a cell, in the order of the outcomes
CellLatencies(test_results, m) ==
    LET model_test_results ==
            SelectSeq(test_results, LAMBDA r : r.model_name = m /\ IsSome(r.latency_ms))
    IN [k \in 1..Len(model_test_results) |-> model_test_results[k].latency_ms[1]]

\* latencies.sort()
SortNumbers(xs) ==
    Names(Sorted([k \in 1..Len(xs) |-> [name |-> xs[k], key |-> RatInt(xs[k])]]))

\* p95_index = int(len(latencies) * 0.95), clamped to the last index (0-based)
P95Index(count) ==
    LET p95_index == (count * 95) \div 100
    IN IF p95_index >= count THEN count - 1 ELSE p95_index

\* faulty variant: the latencies are indexed in the order of the outcomes
LatencyCell_Unsorted(test_results, m) ==
    LET latencies == CellLatencies(test_results, m)
        sorted == SortNumbers(latencies)
    IN IF Len(latencies) = 0
       THEN [p95 |-> 0, avg |-> RatInt(0), min |-> 0, max |-> 0, count |-> 0]
       ELSE [p95 |-> latencies[P95Index(Len(latencies)) + 1],
             avg |-> Rat(SumSeq(latencies), Len(latencies)),
             min |-> sorted[1],
             max |-> sorted[Len(sorted)],
             count |-> Len(latencies)]

\* _print_test_model_latency_table: the figures of a (test, model) cell
LatencyCell(test_results, m) ==
    LET latencies == SortNumbers(CellLatencies(test_results, m))
    IN IF Len(latencies) = 0
       THEN [p95 |-> 0, avg |-> RatInt(0), min |-> 0, max |-> 0, count |-> 0]
       ELSE [p95 |-> latencies[P95Index(Len(latencies)) + 1],
             avg |-> Rat(SumSeq(latencies), Len(latencies)),
             min |-> latencies[1],
             max |-> latencies[Len(latencies)],
             count |-> Len(latencies)]

\* _export_results_to_html: the P95 shown for a cell, "-" for a cell without
\* latencies
HtmlP95(test_results, m) ==
    LET latencies == SortNumbers(CellLatencies(test_results, m))
    IN IF Len(latencies) = 0 THEN None
       ELSE Some(latencies[P95Index(Len(latencies)) + 1])

\* the tables print_results makes of a results dict
Matrix(results) ==
    [t \in DOMAIN results |->
        [m \in ModelsIn(AllOutcomes(results, TestOrder)) |-> MatrixCell(results[t], m)]]

Table(results) ==
    [m \in ModelsIn(AllOutcomes(results, TestOrder)) |-> TableStats(results, m)]

LatencyTable(results) ==
    [t \in DOMAIN results |->
        [m \in ModelsIn(AllOutcomes(results, TestOrder)) |-> LatencyCell(results[t], m)]]

Html(results) ==
    [m \in ModelsIn(AllOutcomes(results, TestOrder)) |-> HtmlStats(results, m)]

HtmlP95Table(results) ==
    [t \in DOMAIN results |->
        [m \in ModelsIn(AllOutcomes(results, TestOrder)) |-> HtmlP95(results[t], m)]]

\* print_results: the matrix is printed, ...
print_test_model_matrix ==
    /\ report.pc = "input"
    /\ report' = [report EXCEPT !.pc = "matrix", !.matrix = Matrix(report.results)]
    /\ UNCHANGED <<runner, lev, connector>>

\* faulty variant: the comparison table takes the outcomes out of the lists
print_model_comparison_table_Consumes ==
    /\ report.pc = "matrix"
    /\ report' = [report EXCEPT
                     !.pc = "table",
                     !.table = Table(report.results),
                     !.sorted_models = TableSortedModels(report.results, TestOrder),
                     !.results = [t \in DOMAIN report.results |-> <<>>]]
    /\ UNCHANGED <<runner, lev, connector>>

\* ... then the comparison table, ...
print_model_comparison_table ==
    /\ report.pc = "matrix"
    /\ report' = [report EXCEPT
                     !.pc = "table",
                     !.table = Table(report.results),
                     !.sorted_models = TableSortedModels(report.results, TestOrder)]
    /\ UNCHANGED <<runner, lev, connector>>

\* ... then the latency table, ...
print_test_model_latency_table ==
    /\ report.pc = "table"
    /\ report' = [report EXCEPT !.pc = "latency", !.latency = LatencyTable(report.results)]
    /\ UNCHANGED <<runner, lev, connector>>

\* ... and then the HTML file is written
export_results_to_html ==
    /\ report.pc = "latency"
    /\ report' = [report EXCEPT
                     !.pc = "exported",
                     !.html = Html(report.results),
                     !.html_sorted_models = HtmlSortedModels(report.results, TestOrder),
                     !.html_p95 = HtmlP95Table(report.results)]
    /\ UNCHANGED <<runner, lev, connector>>

MaxOutcomes == 2    \* most outcomes of the first test in a results dict
MaxReports == 2     \* most calls of print_results with one results dict

\* print_results is called once more with the same results dict
print_results_again ==
    /\ report.pc = "exported"
    /\ report.round < MaxReports
    /\ report' = [report EXCEPT !.pc = "input", !.round = report.round + 1]
    /\ UNCHANGED <<runner, lev, connector>>

\* the outcomes a results dict may hold: two models, passed or not, without a
\* distance or with a small or a large one
ReportOutcomes(t) ==
    { TestResult(t, m, p, <<>>, <<>>, 1, None, d, None) :
        m \in {"claude", "gpt"}, p \in BOOLEAN,
        d \in IF t = "greet" THEN {None, Some(0), Some(3), Some(18000)} ELSE {None} }

\* outcomes that differ in model and latency only
LatencyOutcomes(t) ==
    { TestResult(t, m, TRUE, <<>>, <<>>, 1, None, None, l) :
        m \in {"claude", "gpt"}, l \in {None, Some(10), Some(30)} }

OutcomeLists(outcomes, n) == UNION { [1..k -> outcomes] : k \in 0..n }

NewReport(results) ==
    [pc |-> "input", round |-> 1, results |-> results, matrix |-> <<>>, table |-> <<>>,
     sorted_models |-> <<>>, latency |-> <<>>, html |-> <<>>,
     html_sorted_models |-> <<>>, html_p95 |-> <<>>]

\* print_results is called with a results dict
ReportInit ==
    /\ RunnerIdle
    /\ lev = NoLev
    /\ retry = NoRetry
    /\ ws = NoSocket
    /\ \E g \in OutcomeLists(ReportOutcomes("greet"), MaxOutcomes) :
       \E f \in OutcomeLists(ReportOutcomes("find"), 1) :
          report = NewReport([greet |-> g, find |-> f])

ReportNext ==
    \/ print_test_model_matrix
    \/ print_model_comparison_table
    \/ print_test_model_latency_table
    \/ export_results_to_html
    \/ print_results_again

SpecReport == ReportInit /\ [][ReportNext]_vars

\* print_results is called with a results dict whose outcomes carry latencies
LatencyInit ==
    /\ RunnerIdle
    /\ lev = NoLev
    /\ retry = NoRetry
    /\ ws = NoSocket
    /\ \E g \in OutcomeLists(LatencyOutcomes("greet"), MaxOutcomes + 1) :
       \E f \in OutcomeLists(LatencyOutcomes("find"), 1) :
          report = NewReport([greet |-> g, find |-> f])

SpecLatency == LatencyInit /\ [][ReportNext]_vars

\* the outcomes run_single_test makes for an exact-match test: passed at
\* distance 0, failed at a distance, failed with an error and no distance
ScoreOutcomes(t) ==
    { TestResult(t, m, v[1], <<>>, <<>>, 1, None, v[2], None) :
        m \in {"claude", "gpt"},
        v \in {<<TRUE, Some(0)>>, <<FALSE, Some(3)>>, <<FALSE, None>>} }

\* print_results is called with a results dict of one exact-match test
ScoreInit ==
    /\ RunnerIdle
    /\ lev = NoLev
    /\ retry = NoRetry
    /\ ws = NoSocket
    /\ \E g \in OutcomeLists(ScoreOutcomes("greet"), MaxOutcomes + 2) :
          report = NewReport([greet |-> g])

SpecScore == ScoreInit /\ [][ReportNext]_vars

\* the runs of the end-to-end scenario
EchoRuns == 3

\* run_all_tests is called for one exact-match test, prompt "hi" and expected
\* "hi", run EchoRuns times on the echo connector of the registry
EchoInit ==
    /\ \E w \in 1..MaxWorkers :
          cfg = Config(Tests1(Hi, TRUE), <<"greet">>, Models,
                       <<Explicit("echo-1", EchoRuns)>>, 1, w)
    /\ impl = "registry"
    /\ sem = rate_limiters
    /\ calls = <<>>
    /\ rt = <<>>
    /\ rat = [pc |-> "called", all_results |-> <<>>]
    /\ failed_log = EmptyBag
    /\ lev = NoLev
    /\ retry = NoRetry
    /\ ws = NoSocket
    /\ report = NoReport

\* print_results is called with what run_all_tests returned
print_results ==
    /\ rat.pc = "returned"
    /\ report.pc = "unused"
    /\ report' = NewReport(rat.all_results)
    /\ UNCHANGED <<runner, lev, connector>>

\* the run and its report; no work item fails outside run_single_test
EchoNext ==
    \/ RAT_Start /\ UNCHANGED calc
    \/ RAT_Return /\ UNCHANGED calc
    \/ \E t \in DOMAIN rt : RAT_Collect(t) /\ UNCHANGED calc
    \/ \E t \in DOMAIN rt : RT_Start(t) /\ UNCHANGED calc
    \/ \E t \in DOMAIN rt : RT_Return(t) /\ UNCHANGED calc
    \/ \E c \in DOMAIN calls : RT_Collect(c) /\ UNCHANGED calc
    \/ SingleNext
    \/ print_results
    \/ ReportNext

SpecEcho == EchoInit /\ [][EchoNext]_vars

-----------------------------------------------------------------------------
(* Properties.                                                              *)

Triple(c) == <<calls[c].test, calls[c].model, calls[c].run>>
ResultTriple(result) == <<result.test_name, result.model_name, result.run_number>>

\* the connector (creation or generate) raised, or its result lacks the
\* first_byte_latency_ms attribute: an exception inside the with-block
RaisedInBlock(c) ==
    /\ IsSome(calls[c].beh)
    /\ \/ calls[c].beh[1].kind = "raise"
       \/ ~calls[c].beh[1].result.has_fbl

\* C6: run_single_test never raises past its own boundary: whatever the test
\* name, the model name and the connector do, a call that has ended has
\* returned a TestResult for its request, and when an exception was raised
\* after the permit was acquired that result has passed = false and a
\* non-empty error.
C6_NeverRaises ==
    \A c \in DOMAIN calls :
        /\ calls[c].pc # "raised"
        /\ IsNone(calls[c].exc)
        /\ calls[c].pc = "returned" =>
              /\ IsSome(calls[c].ret)
              /\ ResultTriple(calls[c].ret[1]) = Triple(c)
        /\ RaisedInBlock(c) =>
              /\ calls[c].pc = "returned"
              /\ ~calls[c].ret[1].passed
              /\ IsSome(calls[c].ret[1].error)
              /\ Len(calls[c].ret[1].error[1]) > 0

\* a call whose connector result lacked the attribute has returned
C6_Witness ==
    \E c \in DOMAIN calls :
        /\ calls[c].pc = "returned"
        /\ IsSome(calls[c].beh)
        /\ calls[c].beh[1].kind = "return"
        /\ ~calls[c].beh[1].result.has_fbl
        /\ calls[c].ret[1].error = Some(AttributeErrorMsg)

\* C7: a result of generate whose error field is populated gives the failure
\* outcome a raising generate gives: passed = false, error set to the
\* description, distance unset.
C7_ErrorFieldIsFailure ==
    \A c \in DOMAIN calls :
        ( /\ calls[c].pc = "returned"
          /\ IsSome(calls[c].beh)
          /\ calls[c].beh[1].kind = "return"
          /\ IsSome(calls[c].beh[1].result.error) )
        => /\ ~calls[c].ret[1].passed
           /\ calls[c].ret[1].error = calls[c].beh[1].result.error
           /\ IsNone(calls[c].ret[1].distance)

\* C8: a request whose test name is not configured returns at once, with
\* passed = false, the 'not found' error naming the test and no distance,
\* whether the model name is configured or not.
C8_UnknownTest ==
    \A c \in DOMAIN calls :
        (calls[c].test \notin DOMAIN cfg.tests /\ calls[c].pc # "queued")
        => /\ calls[c].pc = "returned"
           /\ ResultTriple(calls[c].ret[1]) = Triple(c)
           /\ ~calls[c].ret[1].passed
           /\ calls[c].ret[1].error
                 = Some(<<"Test", calls[c].test, "not found in configuration">>)
           /\ IsNone(calls[c].ret[1].distance)

\* an unknown test asked of an unknown model has returned
C8_Witness ==
    \E c \in DOMAIN calls :
        /\ calls[c].pc = "returned"
        /\ calls[c].test \notin DOMAIN cfg.tests
        /\ calls[c].model \notin DOMAIN cfg.models

\* connector calls in flight on the limiter k: permits of k held
InFlight(k) ==
    Cardinality({c \in DOMAIN calls :
                    calls[c].pc = "calling" /\ get_provider_semaphore(calls[c].model) = k})

\* C3: at every moment the number of calls holding a permit of a provider's
\* limiter is at most the provider's cap: openai 10, anthropic 5, echo 20,
\* mock 20, also when more callers than the cap ask for the provider.
C3_CapRespected ==
    /\ rate_limiters["openai"] = 10
    /\ rate_limiters["anthropic"] = 5
    /\ rate_limiters["echo"] = 20
    /\ rate_limiters["mock"] = 20
    /\ \A k \in DOMAIN rate_limiters :
          /\ InFlight(k) <= rate_limiters[k]
          /\ sem[k] >= 0

\* the anthropic limiter is exhausted and a further caller waits for a permit
C3_Witness ==
    /\ InFlight("anthropic") = AnthropicCap
    /\ sem["anthropic"] = 0
    /\ \E c \in DOMAIN calls :
          /\ calls[c].pc = "waiting"
          /\ get_provider_semaphore(calls[c].model) = "anthropic"

\* C4: a permit acquired by run_single_test is given back on every exit path:
\* the permits out of a limiter are exactly those of the calls inside the
\* with-block, and when no call is in progress every limiter is full again.
C4_PermitsReleased ==
    /\ \A k \in DOMAIN rate_limiters : sem[k] + InFlight(k) = rate_limiters[k]
    /\ (\A c \in DOMAIN calls : ~InProgress(c)) => sem = rate_limiters

\* every caller is back, one with a passing result and one after an exception
\* inside the with-block, and the limiters are full
C4_Witness ==
    /\ \A c \in DOMAIN calls : calls[c].pc = "returned"
    /\ \E c \in DOMAIN calls : calls[c].ret[1].passed
    /\ \E c \in DOMAIN calls : calls[c].beh[1].kind = "raise"
    /\ sem = rate_limiters

\* C5: during run_all_tests the number of run_single_test calls in progress,
\* over all tests, is at most max_workers.
C5_TotalWithinMaxWorkers ==
    rat.pc = "collecting"
        => Cardinality({c \in DOMAIN calls : InProgress(c)}) <= cfg.max_workers

\* how many entries of the list results carry the triple x
Occurrences(results, x) ==
    Cardinality({k \in 1..Len(results) : ResultTriple(results[k]) = x})

\* the futures of run_test(t) the as_completed loop has handled
Collected(t) == {c \in PoolCalls(t) : calls[c].pc = "collected"}

\* C1: every request run_test submits gets exactly one outcome in the
\* returned list, a real result or the failure made for a raising work item,
\* whatever the order of completion: the list holds one entry per future
\* handled so far, and at return every submitted request has been handled.
C1_OneOutcomePerRequest ==
    \A t \in DOMAIN rt :
        /\ Len(rt[t].results) = Cardinality(Collected(t))
        /\ \A c \in PoolCalls(t) :
              /\ Triple(c) = TestTasks(t)[c[2]]
              /\ Occurrences(rt[t].results, Triple(c))
                    = Cardinality({d \in Collected(t) : Triple(d) = Triple(c)})
        /\ (rt[t].pc \in {"returned", "collected"} /\ t \in DOMAIN cfg.tests) =>
              /\ PoolCalls(t) = {<<t, k>> : k \in 1..Len(TestTasks(t))}
              /\ Collected(t) = PoolCalls(t)
              /\ Len(rt[t].results) = Len(TestTasks(t))
              /\ \A c \in PoolCalls(t) : Occurrences(rt[t].results, Triple(c)) = 1

\* run_test has returned a list holding a real result and a failure made for
\* a work item that raised
C1_Witness ==
    \E t \in DOMAIN rt :
        /\ rt[t].pc = "returned"
        /\ \E c \in PoolCalls(t) : IsSome(calls[c].exc)
        /\ \E c \in PoolCalls(t) : IsSome(calls[c].ret)
        /\ Len(rt[t].results) >= 2

\* the entries of the run list that name the model m
EntriesFor(m) == {k \in 1..Len(cfg.run_models) : cfg.run_models[k].name = m}

\* the outcomes run_test(t) holds for the model m, and their run numbers
OutcomesFor(t, m) ==
    {k \in 1..Len(rt[t].results) :
        rt[t].results[k].test_name = t /\ rt[t].results[k].model_name = m}

RunNumbers(t, m) == {rt[t].results[k].run_number : k \in OutcomesFor(t, m)}

UnknownModel(c) ==
    calls[c].test \in DOMAIN cfg.tests /\ calls[c].model \notin DOMAIN cfg.models

\* C9: a request for a known test and an unknown model returns passed =
\* false, the 'not found' error naming the model and no distance, and the
\* batch goes on: run_test returns that outcome next to one for every other
\* request.
C9_UnknownModel ==
    /\ \A c \in DOMAIN calls :
          (UnknownModel(c) /\ calls[c].pc # "queued")
          => /\ calls[c].pc \in {"returned", "collected"}
             /\ ResultTriple(calls[c].ret[1]) = Triple(c)
             /\ ~calls[c].ret[1].passed
             /\ calls[c].ret[1].error
                   = Some(<<"Model", calls[c].model, "not found in models configuration">>)
             /\ IsNone(calls[c].ret[1].distance)
    /\ \A t \in DOMAIN rt :
          (rt[t].pc \in {"returned", "collected"} /\ t \in DOMAIN cfg.tests) =>
              /\ Len(rt[t].results) = Len(TestTasks(t))
              /\ \A c \in PoolCalls(t) :
                    /\ calls[c].pc = "collected"
                    /\ UnknownModel(c) =>
                          \E k \in 1..Len(rt[t].results) : rt[t].results[k] = calls[c].ret[1]

\* run_test has returned the outcome of an unknown model and, after it in the
\* list, the outcome of a configured one
C9_Witness ==
    \E t \in DOMAIN rt :
        /\ rt[t].pc = "returned"
        /\ \E j, k \in 1..Len(rt[t].results) :
              /\ j < k
              /\ rt[t].results[j].model_name \notin DOMAIN cfg.models
              /\ rt[t].results[k].model_name \in DOMAIN cfg.models

\* C10: when a work item of run_test raises, the returned list holds a
\* failure made for it (passed = false, an error, its own test, model and
\* run number) and the result of every other work item.
C10_SiblingsKept ==
    \A t \in DOMAIN rt :
        (rt[t].pc \in {"returned", "collected"} /\ t \in DOMAIN cfg.tests) =>
            \A c \in PoolCalls(t) :
                \E k \in 1..Len(rt[t].results) :
                    LET outcome == rt[t].results[k]
                    IN /\ ResultTriple(outcome) = Triple(c)
                       /\ IsSome(calls[c].exc) =>
                             /\ ~outcome.passed
                             /\ IsSome(outcome.error)
                             /\ Len(outcome.error[1]) > 0
                             /\ outcome = ExecutionFailed(c)
                       /\ IsSome(calls[c].ret) => outcome = calls[c].ret[1]

\* run_test has returned after run 2 of a pair raised and run 1 passed
C10_Witness ==
    \E t \in DOMAIN rt :
        /\ rt[t].pc = "returned"
        /\ \E c, d \in PoolCalls(t) :
              /\ IsSome(calls[c].exc)
              /\ calls[c].run = 2
              /\ IsSome(calls[d].ret)
              /\ calls[d].ret[1].passed
              /\ \E j, k \in 1..Len(rt[t].results) :
                    /\ rt[t].results[j] = ExecutionFailed(c)
                    /\ rt[t].results[k] = calls[d].ret[1]

\* the outcome is a failure that says why
VisibleFailure(outcome) ==
    /\ ~outcome.passed
    /\ IsSome(outcome.error)
    /\ Len(outcome.error[1]) > 0

\* C11: the map run_all_tests returns has exactly the configured test names
\* as keys; the list of every test holds one outcome per request expanded for
\* it, a request that failed (connector failure or raising work item)
\* showing as an outcome with passed = false and an error; a list once
\* stored is not touched by what happens in other tests.
C11_AllTestsComplete ==
    /\ DOMAIN rat.all_results \subseteq TestNameSet
    /\ \A t \in DOMAIN rat.all_results :
          /\ rat.all_results[t] = rt[t].results
          /\ Len(rat.all_results[t]) = Len(TestTasks(t))
          /\ \A c \in PoolCalls(t) :
                /\ Occurrences(rat.all_results[t], Triple(c)) = 1
                /\ (IsSome(calls[c].exc) \/ RaisedInBlock(c)) =>
                      \E k \in 1..Len(rat.all_results[t]) :
                          /\ ResultTriple(rat.all_results[t][k]) = Triple(c)
                          /\ VisibleFailure(rat.all_results[t][k])
    /\ rat.pc = "returned" =>
          /\ DOMAIN rat.all_results = TestNameSet
          /\ TestNameSet = DOMAIN cfg.tests

\* run_all_tests has returned; in one test a work item raised, and both
\* tests have their full lists
C11_Witness ==
    /\ rat.pc = "returned"
    /\ \E c \in DOMAIN calls : IsSome(calls[c].exc) /\ calls[c].pool = "greet"
    /\ \A c \in DOMAIN calls : calls[c].pool = "find" => IsSome(calls[c].ret)
    /\ Len(rat.all_results["find"]) = Len(TestTasks("find"))
    /\ Len(rat.all_results["greet"]) = Len(TestTasks("greet"))

\* the connector was created and generate came back with a result that
\* reports no error: the connector call succeeded
ConnectorSucceeded(c) ==
    /\ calls[c].pc = "returned"
    /\ IsSome(calls[c].beh)
    /\ calls[c].beh[1].kind = "return"
    /\ IsNone(calls[c].beh[1].result.error)

\* the outcome of c is the exact-match verdict on the text generate returned
ExactVerdict(c) ==
    LET e == normalize_whitespace(cfg.tests[calls[c].test].expected_output)
        a == normalize_whitespace(calls[c].beh[1].result.text)
        outcome == calls[c].ret[1]
    IN /\ outcome.passed <=> (e = a)
       /\ outcome.distance = Some(levenshtein_distance(e, a))
       /\ outcome.passed => outcome.distance = Some(0)

\* C12: for an exact-match test whose connector call succeeded, passed is
\* true iff the whitespace-normalized expected and actual texts are equal,
\* and distance is the edit distance of the two normalized texts, 0 on pass.
C12_ExactMatch ==
    \A c \in DOMAIN calls :
        (ConnectorSucceeded(c) /\ cfg.tests[calls[c].test].exact_match) => ExactVerdict(c)

\* C12, for the results that carry a first_byte_latency_ms attribute only:
\* the comparison of lines 572-579 gives the exact-match verdict.
C12_ExactMatchWithLatencyField ==
    \A c \in DOMAIN calls :
        ( /\ ConnectorSucceeded(c)
          /\ calls[c].beh[1].result.has_fbl
          /\ cfg.tests[calls[c].test].exact_match ) => ExactVerdict(c)

\* the outcome of c is the substring verdict on the text generate returned
SubstringVerdict(c) ==
    LET outcome == calls[c].ret[1]
    IN /\ outcome.passed <=>
             Contains(Lower(cfg.tests[calls[c].test].expected_output),
                      Lower(calls[c].beh[1].result.text))
       /\ IsNone(outcome.distance)

\* C13: for a substring test whose connector call succeeded, passed is true
\* iff the expected text, case folded, occurs in the actual text, case
\* folded, and distance is unset.
C13_SubstringMatch ==
    \A c \in DOMAIN calls :
        (ConnectorSucceeded(c) /\ ~cfg.tests[calls[c].test].exact_match)
            => SubstringVerdict(c)

\* C13, for the results that carry a first_byte_latency_ms attribute only:
\* the comparison of lines 580-582 gives the substring verdict.
C13_SubstringMatchWithLatencyField ==
    \A c \in DOMAIN calls :
        ( /\ ConnectorSucceeded(c)
          /\ calls[c].beh[1].result.has_fbl
          /\ ~cfg.tests[calls[c].test].exact_match ) => SubstringVerdict(c)

\* C14: the core never retries.  A request that reaches the connector has
\* create_connector called once and generate called at most once, exactly
\* once when the connector could be created, and the outcome is the one made
\* from what that single call returned or raised.
C14_GenerateOnce ==
    \A c \in DOMAIN calls :
        /\ calls[c].n_create <= 1
        /\ calls[c].n_generate <= 1
        /\ calls[c].pc \in {"queued", "waiting", "calling"} =>
              calls[c].n_create = 0 /\ calls[c].n_generate = 0
        /\ (calls[c].pc = "returned" /\ IsSome(calls[c].beh)) =>
              /\ calls[c].n_create = 1
              /\ calls[c].n_generate = (IF calls[c].beh[1].generated THEN 1 ELSE 0)
              /\ \E elapsed \in WallClockMs :
                    calls[c].ret[1]
                       = RunSingleBody(calls[c].test, calls[c].model, calls[c].run,
                                       calls[c].beh[1], elapsed).result

\* generate raised on its single call and the request has returned a failure
C14_Witness ==
    \E c \in DOMAIN calls :
        /\ calls[c].pc = "returned"
        /\ IsSome(calls[c].beh)
        /\ calls[c].beh[1].kind = "raise"
        /\ calls[c].beh[1].generated
        /\ calls[c].n_generate = 1
        /\ ~calls[c].ret[1].passed

\* the run count an entry of the run list declares: its own when it set one,
\* the default otherwise
DeclaredCount(e) == IF e.runs_set THEN e.runs ELSE cfg.runs_per_test

RECURSIVE SumCounts(_)
SumCounts(entries) ==
    IF Len(entries) = 0 THEN 0
    ELSE DeclaredCount(Head(entries)) + SumCounts(Tail(entries))

\* C15: run_test gives every entry of the run list the run numbers 1..count,
\* count being the entry's explicit run count or else runs_per_test; it
\* returns as many outcomes as the counts add up to, and run_all_tests runs
\* every configured test against every entry.
C15_Expansion ==
    /\ \A t \in DOMAIN rt :
          (rt[t].pc \in {"collecting", "returned", "collected"} /\ t \in DOMAIN cfg.tests) =>
              /\ rt[t].total_runs = SumCounts(cfg.run_models)
              /\ {Triple(c) : c \in PoolCalls(t)}
                    = UNION { {<<t, cfg.run_models[k].name, r>> :
                                  r \in 1..DeclaredCount(cfg.run_models[k])} :
                              k \in 1..Len(cfg.run_models) }
              /\ Cardinality(PoolCalls(t)) = SumCounts(cfg.run_models)
    /\ \A t \in DOMAIN rt :
          (rt[t].pc \in {"returned", "collected"} /\ t \in DOMAIN cfg.tests) =>
              /\ Len(rt[t].results) = SumCounts(cfg.run_models)
              /\ \A k \in 1..Len(cfg.run_models) :
                    \A r \in 1..DeclaredCount(cfg.run_models[k]) :
                        Occurrences(rt[t].results, <<t, cfg.run_models[k].name, r>>) = 1
    /\ rat.pc = "returned" =>
          \A t \in DOMAIN cfg.tests :
              /\ t \in DOMAIN rat.all_results
              /\ \A k \in 1..Len(cfg.run_models) :
                    \E j \in 1..Len(rat.all_results[t]) :
                        rat.all_results[t][j].model_name = cfg.run_models[k].name

\* run_all_tests has returned for a run list in which an explicit count
\* stands next to an entry that takes the default
C15_Witness ==
    /\ rat.pc = "returned"
    /\ Len(cfg.run_models) = 2
    /\ \E k \in 1..2 : cfg.run_models[k].runs_set
    /\ \E k \in 1..2 : ~cfg.run_models[k].runs_set
    /\ \A t \in DOMAIN cfg.tests : Len(rat.all_results[t]) = 2

\* the least number of single-character insertions, deletions and
\* substitutions that turn a into b, by recursion on the first characters
RECURSIVE EditDistance(_, _)
EditDistance(a, b) ==
    IF Len(a) = 0 THEN Len(b)
    ELSE IF Len(b) = 0 THEN Len(a)
    ELSE Min3(EditDistance(Tail(a), b) + 1,
              EditDistance(a, Tail(b)) + 1,
              EditDistance(Tail(a), Tail(b)) + (IF Head(a) = Head(b) THEN 0 ELSE 1))

\* C16: levenshtein_distance(a, b) is the least number of single-character
\* insertions, deletions and substitutions that turn a into b, for all texts
\* up to MaxLen over a two-letter alphabet, and it is 3 for 'kitten' and
\* 'sitting'.
C16_MinimumEdits ==
    lev.pc = "done" =>
        /\ lev.d.ab = EditDistance(lev.a, lev.b)
        /\ lev.d.ba = EditDistance(lev.b, lev.a)
        /\ lev.d.ac = EditDistance(lev.a, lev.c)
        /\ (lev.a = kitten /\ lev.b = sitting) => lev.d.ab = 3

\* the distance of 'kitten' and 'sitting' has been computed
C16_Witness ==
    /\ lev.pc = "done"
    /\ lev.a = kitten
    /\ lev.b = sitting
    /\ lev.d.ab = 3

\* C17: levenshtein_distance(a, b) = levenshtein_distance(b, a),
\* levenshtein_distance(a, a) = 0 and levenshtein_distance('', a) = len(a).
C17_SymmetryIdentityEmpty ==
    lev.pc = "done" =>
        /\ lev.d.ab = lev.d.ba
        /\ lev.d.aa = 0
        /\ lev.d.ea = Len(lev.a)
        /\ lev.d.ae = Len(lev.a)

\* distances computed for a shorter first text (the function swaps its
\* arguments) that differs from the second
C17_Witness ==
    /\ lev.pc = "done"
    /\ 0 < Len(lev.a)
    /\ Len(lev.a) < Len(lev.b)
    /\ lev.d.ab > 1
    /\ lev.d.ea = Len(lev.a)

\* C18: triangle inequality,
\* levenshtein_distance(a, c) <= levenshtein_distance(a, b) + levenshtein_distance(b, c).
C18_Triangle ==
    lev.pc = "done" => lev.d.ac <= lev.d.ab + lev.d.bc

\* three different texts for which the inequality is an equality
C18_Witness ==
    /\ lev.pc = "done"
    /\ lev.d.ab > 0
    /\ lev.d.bc > 0
    /\ lev.d.ac = lev.d.ab + lev.d.bc

\* the statistics a report has made so far: report name -> model -> figures
Made ==
    (IF report.pc \in {"table", "exported"} THEN [table |-> report.table] ELSE <<>>)
    @@ (IF report.pc = "exported" THEN [html |-> report.html] ELSE <<>>)

AllPassed(st) == st.total > 0 /\ st.passed = st.total
NonePassed(st) == st.total > 0 /\ st.passed = 0

ZeroPassScore(st) ==
    RatMax(RatSub(RatInt(50), RatDivInt(st.avg_distance, 10)), RatInt(0))

\* C20: a model none of whose outcomes passed has score
\* max(50 - avg_distance / 10, 0) in both reports: 50 when the average
\* distance is 0, not below 0, and not above the score of a model with a
\* smaller average distance.
C20_ZeroPassScore ==
    \A r \in DOMAIN Made : \A m \in DOMAIN Made[r] :
        NonePassed(Made[r][m]) =>
            /\ RatEq(Made[r][m].score, ZeroPassScore(Made[r][m]))
            /\ RatEq(Made[r][m].avg_distance, RatInt(0)) => RatEq(Made[r][m].score, RatInt(50))
            /\ RatLE(RatInt(0), Made[r][m].score)
            /\ \A o \in DOMAIN Made[r] :
                  (NonePassed(Made[r][o])
                     /\ RatLE(Made[r][o].avg_distance, Made[r][m].avg_distance))
                  => RatLE(Made[r][m].score, Made[r][o].score)

\* C20, for the comparison table only.
C20_TableZeroPassScore ==
    report.pc \in {"table", "exported"} =>
        \A m \in DOMAIN report.table :
            NonePassed(report.table[m]) =>
                /\ RatEq(report.table[m].score, ZeroPassScore(report.table[m]))
                /\ RatEq(report.table[m].avg_distance, RatInt(0))
                      => RatEq(report.table[m].score, RatInt(50))
                /\ RatLE(RatInt(0), report.table[m].score)
                /\ \A o \in DOMAIN report.table :
                      (NonePassed(report.table[o])
                         /\ RatLE(report.table[o].avg_distance, report.table[m].avg_distance))
                      => RatLE(report.table[m].score, report.table[o].score)

C20_Witness ==
    /\ report.pc = "exported"
    /\ \A t \in DOMAIN report.results : \A k \in 1..Len(report.results[t]) :
          IsNone(report.results[t][k].distance)
    /\ \E m \in DOMAIN report.html :
          /\ NonePassed(report.html[m])
          /\ RatEq(report.table[m].score, RatInt(50))
          /\ RatEq(report.html[m].score, RatInt(0))

\* the score of a model that passed some and not all of its outcomes, from
\* the pass rate and average distance of a report line
PartialPass(st) == RatLT(RatInt(0), st.pass_rate) /\ RatLT(st.pass_rate, RatInt(100))

PartialPassScore(st) ==
    RatMax(RatSub(st.pass_rate, RatMin(RatDivInt(st.avg_distance, 100), RatInt(50))),
           RatInt(0))

ScoredAsPartialPass(st) ==
    /\ RatEq(st.score, PartialPassScore(st))
    /\ RatLE(RatSub(st.pass_rate, RatInt(50)), st.score)
    /\ RatLE(st.score, st.pass_rate)
    /\ RatLE(RatInt(0), st.score)

\* C21: in the comparison table and in the HTML export, a model whose pass
\* rate is strictly between 0 and 100 has the score
\* max(pass_rate - min(avg_distance/100, 50), 0) of the line's own pass rate
\* and average distance: at least pass_rate - 50, at most pass_rate, never
\* negative.
C21_PartialPassScore ==
    /\ report.pc \in {"table", "latency", "exported"} =>
          \A m \in DOMAIN report.table :
             PartialPass(report.table[m]) => ScoredAsPartialPass(report.table[m])
    /\ report.pc = "exported" =>
          \A m \in DOMAIN report.html :
             PartialPass(report.html[m]) => ScoredAsPartialPass(report.html[m])

\* a partly passing model whose penalty is cut to 50 and whose score stays
\* above 0
C21_Witness ==
    /\ report.pc = "exported"
    /\ \E m \in DOMAIN report.table :
          /\ PartialPass(report.table[m])
          /\ RatLT(RatInt(50), RatDivInt(report.table[m].avg_distance, 100))
          /\ RatEq(report.table[m].score, RatSub(report.table[m].pass_rate, RatInt(50)))
          /\ RatLT(RatInt(0), report.table[m].score)

\* the mean distance of the outcomes of model m that carry a distance, 0 if
\* there is none
MeanDistance(results, m) ==
    LET with == WithDistance(OfModel(AllOutcomes(results, TestOrder), m))
    IN IF Len(with) = 0 THEN RatInt(0) ELSE Rat(DistanceSum(with), Len(with))

\* C22: the average distance of a model, in the comparison table and in the
\* HTML export, is the mean over the outcomes of the model that carry a
\* distance; outcomes without a distance count neither in the sum nor in the
\* number.
C22_AverageDistance ==
    /\ report.pc \in {"table", "latency", "exported"} =>
          \A m \in DOMAIN report.table :
             RatEq(report.table[m].avg_distance, MeanDistance(report.results, m))
    /\ report.pc = "exported" =>
          \A m \in DOMAIN report.html :
             RatEq(report.html[m].avg_distance, MeanDistance(report.results, m))

\* the HTML export alone takes the mean over the outcomes with a distance
C22_HtmlAverageDistance ==
    report.pc = "exported" =>
       \A m \in DOMAIN report.html :
          RatEq(report.html[m].avg_distance, MeanDistance(report.results, m))

\* a model with a failed outcome at distance 3 and an outcome without a
\* distance: the HTML export shows 3, the comparison table less
C22_Witness ==
    /\ report.pc = "exported"
    /\ \E m \in DOMAIN report.html :
          /\ RatEq(MeanDistance(report.results, m), RatInt(3))
          /\ RatEq(report.html[m].avg_distance, RatInt(3))
          /\ RatLT(report.table[m].avg_distance, RatInt(3))

\* the number of the latencies xs that are below x, and that are at most x
Below(xs, x) == Cardinality({k \in 1..Len(xs) : xs[k] < x})
AtMost(xs, x) == Cardinality({k \in 1..Len(xs) : xs[k] <= x})

\* x is the element at 0-based index i of xs sorted ascending
IsAtSortedIndex(xs, i, x) ==
    /\ \E k \in 1..Len(xs) : xs[k] = x
    /\ Below(xs, x) <= i
    /\ i < AtMost(xs, x)

\* floor(count * 0.95), clamped to the last index
ClampedIndex(count) ==
    LET i == CHOOSE j \in 0..count : j * 100 <= count * 95 /\ count * 95 < (j + 1) * 100
    IN IF i > count - 1 THEN count - 1 ELSE i

Perms(n) == {p \in [1..n -> 1..n] : \A i, j \in 1..n : p[i] = p[j] => i = j}
Permuted(xs, p) == [k \in 1..Len(xs) |-> xs[p[k]]]

\* the results dicts that hold the outcomes of `results' in another order
Shuffles(results) ==
    { [greet |-> Permuted(results["greet"], p), find |-> Permuted(results["find"], q)] :
        p \in Perms(Len(results["greet"])), q \in Perms(Len(results["find"])) }

TestOrders == {TestOrder, Reverse(TestOrder)}

\* the figures of the reports do not depend on the order of the outcomes
SameStatistics(shuffled, tests) ==
    /\ Matrix(shuffled) = report.matrix
    /\ [m \in DOMAIN report.table |-> TableStatsOf(shuffled, tests, m)] = report.table
    /\ LatencyTable(shuffled) = report.latency
    /\ [m \in DOMAIN report.html |-> HtmlStatsOf(shuffled, tests, m)] = report.html
    /\ HtmlP95Table(shuffled) = report.html_p95

\* C24: the reports made of a results dict whose outcomes (within each test's
\* list) and tests are put in another order show the same per-model and
\* per-cell figures and list the models in the same order.
C24_OrderIndependent ==
    report.pc = "exported" =>
       \A shuffled \in Shuffles(report.results) : \A tests \in TestOrders :
          /\ SameStatistics(shuffled, tests)
          /\ TableSortedModels(shuffled, tests) = report.sorted_models
          /\ HtmlSortedModels(shuffled, tests) = report.html_sorted_models

\* the figures, and the order of the models in the HTML export, are the same
C24_StatisticsOrderIndependent ==
    report.pc = "exported" =>
       \A shuffled \in Shuffles(report.results) : \A tests \in TestOrders :
          /\ SameStatistics(shuffled, tests)
          /\ HtmlSortedModels(shuffled, tests) = report.html_sorted_models

\* two models with the same average distance: the comparison table lists
\* them in the order of their first outcomes
C24_Witness ==
    /\ report.pc = "exported"
    /\ Len(report.sorted_models) = 2
    /\ RatEq(report.table["claude"].avg_distance, report.table["gpt"].avg_distance)
    /\ \E shuffled \in Shuffles(report.results) :
          TableSortedModels(shuffled, TestOrder) # report.sorted_models

EchoOutcomes == rat.all_results["greet"]

\* C26: one exact-match test with prompt "hi" and expected "hi", run 3 times
\* on the echo connector, gives 3 outcomes, all passed, without error and
\* with distance 0; the reports show pass rate 100 and score 100.
C26_EchoEndToEnd ==
    /\ rat.pc = "returned" =>
          /\ Len(EchoOutcomes) = 3
          /\ \A k \in 1..Len(EchoOutcomes) :
                /\ EchoOutcomes[k].passed
                /\ IsNone(EchoOutcomes[k].error)
                /\ EchoOutcomes[k].distance = Some(0)
    /\ report.pc \in {"table", "latency", "exported"} =>
          /\ RatEq(report.table["echo-1"].pass_rate, RatInt(100))
          /\ RatEq(report.table["echo-1"].score, RatInt(100))
    /\ report.pc = "exported" =>
          /\ RatEq(report.html["echo-1"].pass_rate, RatInt(100))
          /\ RatEq(report.html["echo-1"].score, RatInt(100))

\* what the scenario gives: 3 outcomes, one per run number, none lost
C26_EchoThreeOutcomes ==
    rat.pc = "returned" =>
       /\ Len(EchoOutcomes) = 3
       /\ {EchoOutcomes[k].run_number : k \in 1..Len(EchoOutcomes)} = 1..3

\* the scenario has run and is reported: 3 outcomes, each failed on the read
\* of first_byte_latency_ms, pass rate 0
C26_Witness ==
    /\ rat.pc = "returned"
    /\ report.pc = "exported"
    /\ Len(EchoOutcomes) = 3
    /\ \A k \in 1..Len(EchoOutcomes) :
          /\ ~EchoOutcomes[k].passed
          /\ EchoOutcomes[k].error = Some(AttributeErrorMsg)
          /\ IsNone(EchoOutcomes[k].distance)
    /\ RatEq(report.table["echo-1"].pass_rate, RatInt(0))
    /\ RatEq(report.html["echo-1"].pass_rate, RatInt(0))

\* the connector's result reports a first-byte latency
ReportsLatency(result) == result.has_fbl /\ IsSome(result.fbl)

\* the outcome of c is successful and carries the reported first-byte
\* latency, or the wall-clock time of the call if none is reported
LatencyRecorded(c) ==
    LET result == calls[c].beh[1].result
        outcome == calls[c].ret[1]
    IN /\ IsNone(outcome.error)
       /\ IsSome(outcome.latency_ms)
       /\ IF ReportsLatency(result)
          THEN outcome.latency_ms = result.fbl
          ELSE outcome.latency_ms[1] \in WallClockMs

\* C27: for a successful connector call the outcome's latency is the
\* first-byte latency the result reports, and the wall-clock time of the call
\* when the result reports none; a result that reports none still gives a
\* successful outcome.
C27_Latency ==
    \A c \in DOMAIN calls : ConnectorSucceeded(c) => LatencyRecorded(c)

\* C27, for the results that carry a first_byte_latency_ms attribute only
C27_LatencyWithLatencyField ==
    \A c \in DOMAIN calls :
        (ConnectorSucceeded(c) /\ calls[c].beh[1].result.has_fbl) => LatencyRecorded(c)

\* a connector of the registry returned the text without error, and the
\* outcome is a failure that names the missing attribute
C27_Witness ==
    \E c \in DOMAIN calls :
        /\ ConnectorSucceeded(c)
        /\ impl = "registry"
        /\ ~ReportsLatency(calls[c].beh[1].result)
        /\ calls[c].ret[1].error = Some(AttributeErrorMsg)
        /\ ~calls[c].ret[1].passed

\* the outcomes there are: those run_single_test returned and those run_test
\* has collected or synthesized
Outcomes ==
    { calls[c].ret[1] : c \in {d \in DOMAIN calls : IsSome(calls[d].ret)} }
    \cup UNION { {rt[t].results[k] : k \in 1..Len(rt[t].results)} : t \in DOMAIN rt }

WellFormed(outcome) ==
    /\ IsSome(outcome.error) => (~outcome.passed /\ IsNone(outcome.distance))
    /\ IsSome(outcome.distance) =>
          /\ outcome.test_name \in DOMAIN cfg.tests
          /\ cfg.tests[outcome.test_name].exact_match

\* C28: every outcome run_single_test returns or run_test synthesizes has
\* passed false and no distance if its error is set, and has a distance only
\* if its test is an exact-match test.
C28_OutcomeWellFormed == \A outcome \in Outcomes : WellFormed(outcome)

\* run_test has collected a synthesized failure and an outcome with a
\* distance
C28_Witness ==
    \E t \in DOMAIN rt : \E j, k \in 1..Len(rt[t].results) :
        /\ rt[t].results[j].error = Some(<<"Model execution failed:", "worker failure">>)
        /\ IsSome(rt[t].results[k].distance)
        /\ IsNone(rt[t].results[k].error)

\* run_all_tests has returned a list for every test, with an outcome for
\* every task of the test
AllReturned ==
    /\ rat.pc = "returned"
    /\ DOMAIN rat.all_results = TestNameSet
    /\ \A t \in TestNameSet : Len(rat.all_results[t]) = Len(TestTasks(t))

ConfigurationError(c) ==
    calls[c].test \notin DOMAIN cfg.tests \/ calls[c].model \notin DOMAIN cfg.models

DefaultInFlight ==
    Cardinality({c \in DOMAIN calls :
                    /\ calls[c].pc = "calling"
                    /\ cfg.models[calls[c].model].provider
                          \notin {"openai", "anthropic", "mock"}})

\* C31: a model whose provider has no limiter of its own is admitted through
\* the echo limiter: the calls in flight for echo and for all such providers
\* together hold the permits out of that one limiter and are never more
\* than 20; the limiters are the four made at construction throughout.
C31_DefaultLimiterShared ==
    /\ DOMAIN sem = {"openai", "anthropic", "echo", "mock"}
    /\ EchoCap = 20
    /\ sem["echo"] + DefaultInFlight = EchoCap
    /\ DefaultInFlight <= EchoCap
    /\ \A k \in {"openai", "anthropic", "mock"} : sem[k] = rate_limiters[k]

\* a call for an echo model and a call for a model of an unlisted provider
\* are in flight together, each with a permit of the echo limiter
C31_Witness ==
    /\ \E c, d \in DOMAIN calls :
          /\ calls[c].pc = "calling"
          /\ calls[d].pc = "calling"
          /\ cfg.models[calls[c].model].provider = "echo"
          /\ cfg.models[calls[d].model].provider = "custom"
    /\ DefaultInFlight = LoadCallers
    /\ sem["echo"] = EchoCap - LoadCallers

\* the result the call made before it was handed to _log_failed_test
ResultBeforeLogging(c) ==
    IF IsSome(calls[c].exc) THEN ExecutionFailed(c)
    ELSE IF calls[c].test \notin DOMAIN cfg.tests
    THEN TestNotFound(calls[c].test, calls[c].model, calls[c].run)
    ELSE IF calls[c].model \notin DOMAIN cfg.models
    THEN ModelNotFound(calls[c].test, calls[c].model, calls[c].run)
    ELSE RunSingleBody(calls[c].test, calls[c].model, calls[c].run,
                       calls[c].beh[1], 20).result

\* C32: at most one thread is inside the log-writing section; once an
\* outcome is final the log holds one entry for it if it failed and its
\* write went through, and none if it passed or its write was refused; a
\* refused write leaves the outcome as it was made and the thread ends with
\* that outcome, not with an exception.
C32_LoggingExact ==
    /\ Cardinality({c \in DOMAIN calls : calls[c].pc = "logging"}) <= 1
    /\ \A c \in DOMAIN calls :
          /\ (calls[c].pc \in {"returned", "collected"}) =>
                /\ IsSome(calls[c].ret)
                /\ calls[c].ret[1] = ResultBeforeLogging(c)
                /\ CopiesIn(LogEntry(calls[c].ret[1]), failed_log)
                      = (IF calls[c].ret[1].passed \/ calls[c].warned THEN 0 ELSE 1)
          /\ calls[c].warned => calls[c].pc \in {"returned", "collected"}
          /\ (calls[c].pc \in {"queued", "waiting", "calling", "raised", "log_wait", "logging"}) =>
                CopiesIn(<<calls[c].test, calls[c].model, calls[c].run>>, failed_log) = 0
    /\ \A t \in DOMAIN rt : rt[t].pc = "returned" =>
          /\ Len(rt[t].results) = Cardinality(PoolCalls(t))
          /\ BagCardinality(failed_log)
                = Cardinality({c \in PoolCalls(t) : ~calls[c].ret[1].passed /\ ~calls[c].warned})

\* one thread is writing its entry while another waits for the lock, and a
\* third has returned its failing outcome after its write was refused
C32_Witness ==
    \E c, d, e \in DOMAIN calls :
        /\ calls[c].pc = "logging"
        /\ calls[d].pc = "log_wait"
        /\ calls[e].pc = "returned"
        /\ calls[e].warned
        /\ ~calls[e].ret[1].passed
        /\ BagCardinality(failed_log) = 0

\* the rows, in the order given, have scores that do not increase
NonIncreasingScores(rows, figures) ==
    \A i, j \in 1..Len(rows) :
        i < j => RatLE(figures[rows[j]].score, figures[rows[i]].score)

\* C33: the rows of the comparison table are in non-increasing order of
\* score, in the console table and in the HTML export.
C33_RankedByScore ==
    /\ report.pc \in {"table", "latency", "exported"} =>
          NonIncreasingScores(report.sorted_models, report.table)
    /\ report.pc = "exported" =>
          NonIncreasingScores(report.html_sorted_models, report.html)

\* the rows of the HTML export alone are in non-increasing order of score
C33_HtmlRankedByScore ==
    report.pc = "exported" =>
        /\ NonIncreasingScores(report.html_sorted_models, report.html)
        /\ {report.html_sorted_models[k] : k \in 1..Len(report.html_sorted_models)}
              = DOMAIN report.html

\* gpt failed without a distance and claude passed at distance 0: both have
\* average distance 0, the console table lists gpt (score 50) above claude
\* (score 100), the HTML export claude above gpt
C33_Witness ==
    /\ report.pc = "exported"
    /\ Len(report.results["greet"]) = 2
    /\ Len(report.results["find"]) = 0
    /\ report.results["greet"][1].model_name = "gpt"
    /\ ~report.results["greet"][1].passed
    /\ IsNone(report.results["greet"][1].distance)
    /\ report.results["greet"][2].model_name = "claude"
    /\ report.results["greet"][2].passed
    /\ report.results["greet"][2].distance = Some(0)
    /\ report.sorted_models = <<"gpt", "claude">>
    /\ RatEq(report.table["gpt"].score, RatInt(50))
    /\ RatEq(report.table["claude"].score, RatInt(100))
    /\ report.html_sorted_models = <<"claude", "gpt">>

\* C34: the comparison table and the HTML export show the same pass rate,
\* the same average distance and the same score for every model.
C34_SameAggregation ==
    report.pc = "exported" =>
        /\ DOMAIN report.table = DOMAIN report.html
        /\ \A m \in DOMAIN report.table :
              /\ RatEq(report.table[m].pass_rate, report.html[m].pass_rate)
              /\ RatEq(report.table[m].avg_distance, report.html[m].avg_distance)
              /\ RatEq(report.table[m].score, report.html[m].score)

\* the two reports show the same models with the same counts and pass rates
C34_SamePassRate ==
    report.pc = "exported" =>
        /\ DOMAIN report.table = DOMAIN report.html
        /\ \A m \in DOMAIN report.table :
              /\ report.table[m].passed = report.html[m].passed
              /\ report.table[m].total = report.html[m].total
              /\ RatEq(report.table[m].pass_rate, report.html[m].pass_rate)

\* claude failed the exact-match test at distance 3 and passed the substring
\* test, which carries no distance: same pass rate, the table shows average
\* distance 3/2 and the HTML export 3, and the scores differ
C34_Witness ==
    /\ report.pc = "exported"
    /\ Len(report.results["greet"]) = 1
    /\ Len(report.results["find"]) = 1
    /\ report.results["greet"][1].model_name = "claude"
    /\ ~report.results["greet"][1].passed
    /\ report.results["greet"][1].distance = Some(3)
    /\ report.results["find"][1].model_name = "claude"
    /\ report.results["find"][1].passed
    /\ RatEq(report.table["claude"].pass_rate, RatInt(50))
    /\ RatEq(report.html["claude"].pass_rate, RatInt(50))
    /\ RatEq(report.table["claude"].avg_distance, Rat(3, 2))
    /\ RatEq(report.html["claude"].avg_distance, RatInt(3))
    /\ RatLT(report.html["claude"].score, report.table["claude"].score)

\* in the figures of a report, a model with the same average distance and
\* at least the pass rate of another has at least its score
MonotoneInPassRate(figures) ==
    \A m, o \in DOMAIN figures :
        (/\ RatEq(figures[m].avg_distance, figures[o].avg_distance)
         /\ RatLE(figures[o].pass_rate, figures[m].pass_rate))
        => RatLE(figures[o].score, figures[m].score)

\* the same among the models with at least one passing outcome
MonotoneAmongPassing(figures) ==
    \A m, o \in DOMAIN figures :
        (/\ RatEq(figures[m].avg_distance, figures[o].avg_distance)
         /\ RatLE(figures[o].pass_rate, figures[m].pass_rate)
         /\ figures[o].passed > 0)
        => RatLE(figures[o].score, figures[m].score)

C39_PassingBelowFailing ==
    /\ report.pc = "exported"
    /\ DOMAIN report.table = {"claude", "gpt"}
    /\ report.table["claude"].passed = 1
    /\ report.table["claude"].total = 3
    /\ report.table["gpt"].passed = 0
    /\ report.table["gpt"].total = 1
    /\ RatEq(report.table["claude"].avg_distance, RatInt(0))
    /\ RatEq(report.table["gpt"].avg_distance, RatInt(0))
    /\ RatEq(report.table["claude"].score, Rat(100, 3))
    /\ RatEq(report.table["gpt"].score, RatInt(50))

\* C38: an outcome that carries a distance has passed exactly if the
\* distance is 0.
C38_PassedIffDistanceZero ==
    \A c \in DOMAIN calls :
        (IsSome(calls[c].ret) /\ IsSome(calls[c].ret[1].distance)) =>
            (calls[c].ret[1].passed <=> calls[c].ret[1].distance = Some(0))

\* an exact-match outcome whose texts differ in whitespace only: it passed
\* and its distance is 0
C38_Witness ==
    \E c \in DOMAIN calls :
        /\ calls[c].pc = "returned"
        /\ calls[c].ret[1].passed
        /\ calls[c].ret[1].distance = Some(0)
        /\ calls[c].ret[1].expected = <<"h", "i", " ">>
        /\ calls[c].ret[1].actual = <<" ", "h", "i", "\n">>

\* the attempt's result is one that is not tried again whatever the turn:
\* no error, and for a connector that retries empty responses a text that
\* is not empty or blank
NeedsNoRetry(o) ==
    /\ o.kind = "return"
    /\ IsNone(o.result.error)
    /\ retry.retries_empty => (Len(o.result.text) > 0 /\ Strip(o.result.text) # <<>>)

\* C35: a call of generate makes at most max_retries + 1 attempts; an
\* attempt whose result needs no retry is the last one, and its result is
\* what generate returns.
C35_RetryBounded ==
    /\ Len(retry.history) <= retry.max_retries + 1
    /\ retry.pc = "looping" =>
          (retry.attempt = Len(retry.history) /\ IsNone(retry.ret))
    /\ \A k \in 1..Len(retry.history) :
          NeedsNoRetry(retry.history[k]) =>
              /\ k = Len(retry.history)
              /\ retry.pc = "returned"
              /\ retry.ret = Some(retry.history[k].result)

\* a connector that retries empty responses had an error and then a blank
\* text, and returned the text of its third attempt with an attempt to spare
C35_Witness ==
    /\ retry.pc = "returned"
    /\ retry.retries_empty
    /\ retry.max_retries = MaxRetries
    /\ Len(retry.history) = 3
    /\ IsSome(retry.history[1].result.error)
    /\ retry.history[2].result.text = <<" ">>
    /\ IsNone(retry.history[2].result.error)
    /\ retry.ret = Some(GenerateResult(Hi, None))

\* the attempt returned a result with an error, or raised
AttemptFailed(o) == o.kind = "raise" \/ IsSome(o.result.error)

\* C36: generate ends by returning a result, never with the exception of an
\* attempt; if every attempt returned an error or raised, the result
\* returned has its error set and no text.
C36_FailureIsAValue ==
    /\ retry.pc \in {"unused", "looping", "returned"}
    /\ retry.pc = "returned" =>
          /\ IsSome(retry.ret)
          /\ (\A k \in 1..Len(retry.history) : AttemptFailed(retry.history[k])) =>
                /\ IsSome(retry.ret[1].error)
                /\ Len(retry.ret[1].error[1]) > 0
                /\ retry.ret[1].text = <<>>

\* every attempt raised: generate returned the result made after the loop
C36_Witness ==
    /\ retry.pc = "returned"
    /\ retry.max_retries = MaxRetries
    /\ Len(retry.history) = MaxRetries + 1
    /\ \A k \in 1..Len(retry.history) : retry.history[k].kind = "raise"
    /\ retry.ret[1].error
          = Some(<<"Failed after", Digits[MaxRetries + 1], "attempts", "Last error:",
                   "Unexpected error on attempt", Digits[MaxRetries + 1]>>)

\* the four fields of the connector an attempt reads
Fields == <<ws.response_text, ws.response_error, ws.response_received, ws.session_id>>

\* C37: while an attempt runs, a callback of the socket thread of an earlier
\* attempt leaves response_text, response_error, response_received and
\* session_id as they are.
C37_NoBleed ==
    [][\A s \in 1..(MaxRetries + 1) :
          (/\ ws.pc \in Running
           /\ s # ws.attempt
           /\ (WS_OnMessage(s) \/ WS_OnError(s) \/ WS_OnClose(s)))
          => Fields' = Fields]_vars

\* an attempt starts with the four fields reset
C37_StartsFresh ==
    [][ws'.attempt # ws.attempt =>
          /\ ws'.attempt = ws.attempt + 1
          /\ Fields' = <<<<>>, None, FALSE, None>>]_vars

\* the first attempt timed out waiting for its session and left its socket
\* open; the second attempt goes on with the session id of the first socket
C37_Witness ==
    /\ ws.pc = "response_wait"
    /\ ws.attempt = 2
    /\ ws.session_id = Some(1)
    /\ 1 \in ws.sockets
    /\ ws.results = <<"Failed to create session within timeout">>

=============================================================================
